---- MODULE Spec2Model ----
(***************************************************************************)
(* State-machine model of the inventory reconciliation jobs of the        *)
(* OpenStack portal (portal/tasks.py, portal/services, portal/models.py). *)
(*                                                                         *)
(* Conventions.  Python's None and '' are both modelled as the empty      *)
(* value of the field's type (the empty sequence for an address, "" for a *)
(* name, 0 for a number): the code tests them by truthiness only.         *)
(* A table without a database uniqueness constraint is a sequence of rows *)
(* (the primary key is the index); a table keyed by its primary key is a  *)
(* function from the key.                                                 *)
(***************************************************************************)
EXTENDS Integers, Sequences, FiniteSets, TLC

VARIABLES
    remote,      \* per cluster: the name of the state its APIs answer from (environment)
    status,      \* Cluster.status, per cluster
    hosts,       \* PhysicalHost table: sequence of rows, pk = index
    services,    \* ClusterService table: sequence of rows, pk = index
    instances,   \* Instance table: uuid -> row
    volumes,     \* Volume table: uuid -> row
    audit,       \* AuditLog table: sequence of entries
    concurrency, \* number of worker processes executing tasks
    run,         \* per worker: position and locals of its sync_inventory run
    runs,        \* number of sync_inventory runs started so far
    hist,        \* history: snapshot of the previous run, outcome of the passes
    bmc,         \* per BMC address: the name of the way the endpoint behaves (environment)
    ome,         \* the name of what the OpenManage service answers (environment)
    portal,      \* PortalSettings table: sequence of rows
    alerts,      \* Alert table: sequence of rows, pk = index
    job,         \* per worker: position and locals of its hardware or flavor job
    jobs,        \* number of hardware and flavor jobs started so far
    flavors,     \* Flavor table: uuid -> row
    op,          \* the operator request in flight: its kind, host and host object
    ops,         \* number of operator requests made so far
    caller,      \* per caller of PortalSettings: position and settings object
    shist,       \* history: whether a get_settings() has returned, the object last saved
    profiles,    \* ServerCostProfile table: pk -> row
    report       \* what the last call of the cost service returned

syncVars == <<remote, run, runs, hist, status, services, instances, volumes>>

costVars == <<profiles, report>>

opVars == <<flavors, op, ops, caller, shist, costVars>>

hwVars == <<bmc, ome, portal, alerts, job, jobs, opVars>>

vars == <<remote, status, hosts, services, instances, volumes, audit,
          concurrency, run, runs, hist, bmc, ome, portal, alerts, job, jobs,
          flavors, op, ops, caller, shist, profiles, report>>

(***************************************************************************)
(* Bounds of the model.                                                    *)
(***************************************************************************)
\* sync_inventory runs started in one behaviour
MaxRuns == 2

\* hardware and flavor jobs (collect_hardware_health, sync_openmanage,
\* sync_flavors) started in one behaviour
MaxJobs == 2

\* operator requests (toggle_maintenance, refresh_host) made in one behaviour
MaxOps == 2

(***************************************************************************)
(* Generic helpers.                                                        *)
(***************************************************************************)
EmptyMap == [x \in {} |-> {}]

\* dict.get(k, default)
Get(m, k, default) == IF k \in DOMAIN m THEN m[k] ELSE default

\* dict[k] = v
Put(m, k, v) == [x \in (DOMAIN m) \cup {k} |-> IF x = k THEN v ELSE m[x]]

Range(s) == {s[i] : i \in DOMAIN s}

\* a log that keeps its latest entry only
AuditCreateLatestOnly(log, entry) == <<entry>>

\* AuditLog.objects.create(...): the table gets one more row
AuditCreate(log, entry) == Append(log, entry)

\* the empty address: Python None or ''
NoAddr == <<>>

\* Cluster.objects.all(): the clusters in iteration order
ClusterOrder == <<"A", "B">>

Clusters == Range(ClusterOrder)

(***************************************************************************)
(* openstack_retry (openstack_utils.py 14-27).  A remote call is given by  *)
(* the answers of its successive attempts: "ok" or the exception raised.   *)
(***************************************************************************)
\* stop_after_attempt(3)
MaxAttempts == 3

\* retry_if_exception_type((...))
TransientErrors == {"ConnectFailure", "ConnectTimeout", "GatewayTimeout", "ServiceUnavailable"}

\* a retry condition that holds for every exception
IsTransientAlways(e) == e # "ok"

IsTransient(e) == e \in TransientErrors

\* the answer of attempt n; the last answer stands for all further ones
AnswerAt(answers, n) == answers[IF n <= Len(answers) THEN n ELSE Len(answers)]

\* the retry loop from attempt n on: the call returns, a failure that is
\* not of a retried class is raised as it is, a retried one leads to the
\* next attempt or, after the last attempt, to RetryError
RECURSIVE Retrying(_, _)
Retrying(answers, n) ==
    LET a == AnswerAt(answers, n) IN
    IF a = "ok" THEN [attempts |-> n, error |-> "none"]
    ELSE IF ~IsTransient(a) THEN [attempts |-> n, error |-> a]
    ELSE IF n >= MaxAttempts THEN [attempts |-> n, error |-> "RetryError"]
    ELSE Retrying(answers, n + 1)

\* a method decorated with @openstack_retry
CallWithRetry(answers) == Retrying(answers, 1)

\* a call on client.conn, outside the decorator: one attempt
DirectCall(answers) ==
    [attempts |-> 1, error |-> IF answers[1] = "ok" THEN "none" ELSE answers[1]]

\* the remote calls of the jobs
Calls == {"services", "hypervisors", "nodes", "stats", "servers", "volumes", "flavors"}

NoTries == [call \in Calls |-> <<>>]

NoTried == [call \in Calls |-> 0]

\* the answer of a call once its transient failures are over
FinalAnswer(r, call) ==
    IF \/ call \in {"services", "hypervisors", "flavors"} /\ r.fault = call
       \/ call = "stats" /\ r.statsFail
       \/ call = "servers" /\ r.serversFail
       \/ call = "volumes" /\ r.volumesFail
    THEN "HttpException" ELSE "ok"

\* the answers of the attempts of a call against remote state r
Answers(r, call) == r.tries[call] \o <<FinalAnswer(r, call)>>

\* how the code makes each call: get_services, get_hypervisors and
\* get_flavors are decorated, the bulk fetches go to client.conn directly
Fetch(r, call) ==
    IF call \in {"services", "hypervisors", "flavors"}
    THEN CallWithRetry(Answers(r, call))
    ELSE DirectCall(Answers(r, call))

Fails(r, call) == Fetch(r, call).error # "none"

(***************************************************************************)
(* Bulk map builder (tasks.py 57-121, services/inventory_service.py).      *)
(***************************************************************************)
\* str.replace('https://', '').replace('http://', ''): an address is a
\* sequence of tokens; every scheme token is removed wherever it stands.
RECURSIVE StripSchemes(_)
StripSchemes(a) ==
    IF a = <<>> THEN <<>>
    ELSE IF Head(a) \in {"https://", "http://"} THEN StripSchemes(Tail(a))
    ELSE <<Head(a)>> \o StripSchemes(Tail(a))

\* str.split('/')[0]: the tokens before the first '/'
RECURSIVE BeforeSlash(_)
BeforeSlash(a) ==
    IF a = <<>> \/ Head(a) = "/" THEN <<>>
    ELSE <<Head(a)>> \o BeforeSlash(Tail(a))

NormalizeAddress(a) == BeforeSlash(StripSchemes(a))

\* driver_info.get('redfish_address') or .get('ipmi_address') or .get('drac_address')
DriverAddress(info) ==
    IF info.redfish_address # NoAddr THEN info.redfish_address
    ELSE IF info.ipmi_address # NoAddr THEN info.ipmi_address
    ELSE info.drac_address

\* an iteration that leaves the instance identifier out
BmcAddNodeNoInstance(m, node) ==
    LET address == DriverAddress(node.driver_info) IN
    IF address = NoAddr THEN m
    ELSE LET a  == NormalizeAddress(address)
             m1 == IF node.name # "" THEN Put(m, node.name, a) ELSE m
         IN Put(m1, node.id, a)

\* one iteration of the loop over the bare-metal nodes
BmcAddNode(m, node) ==
    LET address == DriverAddress(node.driver_info) IN
    IF address = NoAddr THEN m
    ELSE LET a  == NormalizeAddress(address)
             m1 == IF node.name # "" THEN Put(m, node.name, a) ELSE m
             m2 == Put(m1, node.id, a)
         IN IF node.instance_id # "" THEN Put(m2, node.instance_id, a) ELSE m2

RECURSIVE BmcFold(_, _, _)
BmcFold(m, nodes, n) ==
    IF n = 0 \/ nodes = <<>> THEN m
    ELSE BmcFold(BmcAddNode(m, Head(nodes)), Tail(nodes), n - 1)

\* The BMC map: the node listing is a generator that yields `yielded` nodes
\* and then either ends or raises; the except clause keeps what the loop
\* has already put into the dict.
BuildBmcMap(r) ==
    IF Fails(r, "nodes") THEN EmptyMap ELSE BmcFold(EmptyMap, r.nodes, r.nodesYielded)

\* The bulk hypervisor statistics map: one GET, then one entry per element.
RECURSIVE StatsFold(_, _)
StatsFold(m, list) ==
    IF list = <<>> THEN m
    ELSE StatsFold(Put(m, Head(list).hypervisor_hostname, Head(list)), Tail(list))

BuildStatsMap(r) ==
    IF Fails(r, "stats") THEN EmptyMap ELSE StatsFold(EmptyMap, r.stats)

\* srv.hypervisor_hostname or srv.compute_host
ServerHostName(srv) ==
    IF srv.hypervisor_hostname # "" THEN srv.hypervisor_hostname ELSE srv.compute_host

RECURSIVE InstanceFold(_, _)
InstanceFold(m, list) ==
    IF list = <<>> THEN m
    ELSE LET srv == Head(list)
             h   == ServerHostName(srv)
         IN InstanceFold(IF h # "" THEN Put(m, h, Append(Get(m, h, <<>>), srv)) ELSE m,
                         Tail(list))

\* The host -> servers map: list(...) raises before the loop starts.
BuildInstanceMap(r) ==
    IF Fails(r, "servers") THEN EmptyMap ELSE InstanceFold(EmptyMap, r.servers)

RECURSIVE AttachFold(_, _, _)
AttachFold(m, vol, atts) ==
    IF atts = <<>> THEN m
    ELSE LET sid == Head(atts).server_id
         IN AttachFold(IF sid # "" THEN Put(m, sid, Append(Get(m, sid, <<>>), vol)) ELSE m,
                       vol, Tail(atts))

RECURSIVE VolumeFold(_, _)
VolumeFold(m, list) ==
    IF list = <<>> THEN m
    ELSE VolumeFold(AttachFold(m, Head(list), Head(list).attachments), Tail(list))

\* The server id -> volumes map: list(...) raises before the loop starts.
BuildVolumeMap(r) ==
    IF Fails(r, "volumes") THEN EmptyMap ELSE VolumeFold(EmptyMap, r.volumes)

(***************************************************************************)
(* Launch timestamp (tasks.py 182-186).  A timestamp string is modelled by *)
(* what django.utils.dateparse.parse_datetime makes of it: its form (ISO   *)
(* 8601 or free text), its month field and whether it carries an offset.   *)
(***************************************************************************)
NoTime == [month |-> 0, aware |-> FALSE]

\* parse_datetime: None for a string that is not ISO formatted, ValueError
\* for a well formatted string whose fields are out of range.
ParseDatetime(s) ==
    IF s.form # "iso" THEN [raised |-> FALSE, isNone |-> TRUE, value |-> NoTime]
    ELSE IF s.month \notin 1..12 THEN [raised |-> TRUE, isNone |-> TRUE, value |-> NoTime]
    ELSE [raised |-> FALSE, isNone |-> FALSE,
          value |-> [month |-> s.month, aware |-> s.tz]]

\* timezone.make_aware on a naive value
MakeAware(t) == [t EXCEPT !.aware = TRUE]

\* tasks.py 182-186: timezone.is_naive(None) raises AttributeError.
LaunchedAt(s) ==
    IF s.form = "none" THEN [raised |-> FALSE, value |-> NoTime]
    ELSE LET p == ParseDatetime(s) IN
         IF p.raised \/ p.isNone THEN [raised |-> TRUE, value |-> NoTime]
         ELSE [raised |-> FALSE,
               value |-> IF p.value.aware THEN p.value ELSE MakeAware(p.value)]

(***************************************************************************)
(* Host and row values.                                                    *)
(***************************************************************************)
\* x or y or 0 on numbers: 0 and None are both falsy
OrElse(x, y) == IF x # 0 THEN x ELSE y

\* tasks.py 131-151: the defaults of the host upsert.  idrac_ip is part of
\* the defaults only when a non-empty address was found (NoAddr = not part).
HostValues(hyp, maps) ==
    LET byName    == Get(maps.bmc, hyp.name, NoAddr)
        found     == IF byName # NoAddr THEN byName ELSE Get(maps.bmc, hyp.id, NoAddr)
        raw_stats == Get(maps.stats, hyp.name, [hypervisor_hostname |-> hyp.name, vcpus |-> 0])
    IN [cpu_count |-> OrElse(raw_stats.vcpus, OrElse(hyp.vcpus, 0)),
        state     |-> hyp.state,
        idrac_ip  |-> found]

\* the update without the guard of tasks.py 150-151: idrac_ip always among
\* the defaults
UpdateHostRowUnguarded(row, v) ==
    [row EXCEPT !.cpu_count = v.cpu_count,
                !.state     = v.state,
                !.idrac_ip  = v.idrac_ip]

\* update_or_create, row found: setattr for every key of defaults, save
UpdateHostRow(row, v) ==
    [row EXCEPT !.cpu_count = v.cpu_count,
                !.state     = v.state,
                !.idrac_ip  = IF v.idrac_ip # NoAddr THEN v.idrac_ip ELSE @]

\* update_or_create, no row found: the lookup and the defaults, model
\* defaults (models.py 123-152) for the rest
NewHostRow(c, name, v) ==
    [cluster |-> c, hostname |-> name, idrac_ip |-> v.idrac_ip,
     cpu_count |-> v.cpu_count, state |-> v.state, is_maintenance |-> FALSE,
     service_tag |-> "", cpu_model |-> "", hardware_health |-> "Unknown",
     server_model |-> <<>>]

\* the lookup without the cluster: hosts keyed by hostname alone
HostMatchesByName(tbl, c, name) ==
    {p \in DOMAIN tbl : tbl[p].hostname = name}

\* PhysicalHost.objects.filter(cluster=c, hostname=name): the matching pks
HostMatches(tbl, c, name) ==
    {p \in DOMAIN tbl : tbl[p].cluster = c /\ tbl[p].hostname = name}

\* the lookup with the service id, which is no column of the table: it
\* finds nothing
ServiceMatchesById(tbl, c, svc) ==
    {p \in DOMAIN tbl : FALSE}

\* ClusterService.objects.filter(cluster=c, binary=b, host=h)
ServiceMatches(tbl, c, svc) ==
    {p \in DOMAIN tbl : tbl[p].cluster = c /\ tbl[p].binary = svc.binary
                        /\ tbl[p].host = svc.host}

ServiceRow(c, svc) ==
    [cluster |-> c, binary |-> svc.binary, host |-> svc.host, status |-> svc.status]

\* vol.attachments[0].get('device') if vol.attachments else ''
VolumeDevice(vol) ==
    IF vol.attachments # <<>> THEN vol.attachments[1].device ELSE ""

\* volume upserts that first drop the server's stored volumes the list no
\* longer holds
UpsertVolumesPurging(tbl, sid, vols) ==
    LET ids  == {vols[n].id : n \in DOMAIN vols}
        kept == {v \in DOMAIN tbl : tbl[v].instance # sid} \cup ids
    IN [v \in kept |->
          IF v \in ids
          THEN [instance |-> sid,
                device |-> VolumeDevice(vols[CHOOSE n \in DOMAIN vols : vols[n].id = v])]
          ELSE tbl[v]]

\* tasks.py 206-221: the volume upserts of one server, in list order
\* volume upserts that leave a row that exists as it is
RECURSIVE UpsertVolumesOnce(_, _, _)
UpsertVolumesOnce(tbl, sid, vols) ==
    IF vols = <<>> THEN tbl
    ELSE UpsertVolumesOnce(IF Head(vols).id \in DOMAIN tbl THEN tbl
                           ELSE Put(tbl, Head(vols).id,
                                    [instance |-> sid, device |-> VolumeDevice(Head(vols))]),
                           sid, Tail(vols))

RECURSIVE UpsertVolumes(_, _, _)
UpsertVolumes(tbl, sid, vols) ==
    IF vols = <<>> THEN tbl
    ELSE UpsertVolumes(Put(tbl, Head(vols).id,
                           [instance |-> sid, device |-> VolumeDevice(Head(vols))]),
                       sid, Tail(vols))

\* tasks.py 164-165: no address found yet, the default network name
NoNetwork == [ip_address |-> NoAddr, network_name |-> "provider-net"]

\* tasks.py 168-172: the loop over the entries of one address group stops
\* at the first entry of version 4
RECURSIVE ScanEntries(_, _, _)
ScanEntries(addrs, name, acc) ==
    IF addrs = <<>> THEN acc
    ELSE IF Head(addrs).version = 4
         THEN [ip_address |-> Head(addrs).addr, network_name |-> name]
         ELSE ScanEntries(Tail(addrs), name, acc)

\* tasks.py 167-173: the loop over the address groups stops once an address
\* is held
RECURSIVE ScanGroups(_, _)
ScanGroups(groups, acc) ==
    IF groups = <<>> THEN acc
    ELSE LET a == ScanEntries(Head(groups).addrs, Head(groups).name, acc)
         IN IF a.ip_address # NoAddr THEN a ELSE ScanGroups(Tail(groups), a)

\* tasks.py 163-173: Extract Network Info
ExtractNetwork(srv) == ScanGroups(srv.addresses, NoNetwork)

\* tasks.py 190-202: the defaults of the instance upsert; they carry the
\* address and the network name in every case
InstanceDefaults(srv, hostPk, launched) ==
    [host |-> hostPk, name |-> srv.name, launched_at |-> launched,
     flavor_name |-> srv.flavor, project_id |-> srv.project_id,
     ip_address |-> ExtractNetwork(srv).ip_address,
     network_name |-> ExtractNetwork(srv).network_name]

\* update_or_create, no row found: the defaults, model defaults
\* (models.py 174-175) for the rest
NewInstanceRow(d) ==
    [host |-> d.host, name |-> d.name, launched_at |-> d.launched_at,
     flavor_name |-> d.flavor_name, project_id |-> d.project_id,
     ip_address |-> d.ip_address, network_name |-> d.network_name,
     last_cpu_usage_pct |-> 0, last_ram_usage_mb |-> 0]

\* an update that writes a fresh row: the fields outside the defaults go
\* back to their model defaults
UpdateInstanceRowAfresh(row, d) == NewInstanceRow(d)

\* update_or_create, row found: setattr for every key of defaults, save
UpdateInstanceRow(row, d) ==
    [row EXCEPT !.host = d.host, !.name = d.name, !.launched_at = d.launched_at,
                !.flavor_name = d.flavor_name, !.project_id = d.project_id,
                !.ip_address = d.ip_address, !.network_name = d.network_name]

\* an upsert keyed by identifier and host: a row of that identifier on
\* another host is not taken for the server's row and stays as it is
UpsertInstanceOnHost(tbl, srv, hostPk, launched) ==
    LET d == InstanceDefaults(srv, hostPk, launched) IN
    IF srv.id \in DOMAIN tbl
    THEN (IF tbl[srv.id].host = hostPk
          THEN Put(tbl, srv.id, UpdateInstanceRow(tbl[srv.id], d)) ELSE tbl)
    ELSE Put(tbl, srv.id, NewInstanceRow(d))

\* tasks.py 188-203: the instance upsert (keyed by the primary key uuid)
UpsertInstance(tbl, srv, hostPk, launched) ==
    LET d == InstanceDefaults(srv, hostPk, launched) IN
    Put(tbl, srv.id, IF srv.id \in DOMAIN tbl THEN UpdateInstanceRow(tbl[srv.id], d)
                     ELSE NewInstanceRow(d))

(***************************************************************************)
(* The environment: what a cluster's APIs answer.  A remote state is a     *)
(* record; RemoteStates(c) is the bounded set the model draws from: a      *)
(* base state and the states that differ from it in one respect.           *)
(***************************************************************************)
Addr1 == <<"https://", "10.0.0.1", "/", "redfish", "/", "v1">>
Addr2 == <<"http://", "10.0.0.2">>
Addr9 == <<"10.0.0.9">>
AddrSchemeOnly == <<"https://">>

Info(rf, ipmi, drac) == [redfish_address |-> rf, ipmi_address |-> ipmi, drac_address |-> drac]

Node1    == [name |-> "h1", id |-> "n1", instance_id |-> "", driver_info |-> Info(Addr1, Addr9, NoAddr)]
Node1b   == [name |-> "h1", id |-> "n1", instance_id |-> "", driver_info |-> Info(NoAddr, Addr9, NoAddr)]
Node1bad == [name |-> "h1", id |-> "n3", instance_id |-> "", driver_info |-> Info(AddrSchemeOnly, NoAddr, NoAddr)]
Node2    == [name |-> "", id |-> "hid2", instance_id |-> "i1", driver_info |-> Info(NoAddr, NoAddr, Addr2)]
NodeNone == [name |-> "h2", id |-> "n4", instance_id |-> "", driver_info |-> Info(NoAddr, NoAddr, NoAddr)]

Hyp1  == [name |-> "h1", id |-> "hid1", vcpus |-> 8, state |-> "up"]
Hyp1x == [name |-> "h1", id |-> "hid1", vcpus |-> 16, state |-> "down"]
Hyp2  == [name |-> "h2", id |-> "hid2", vcpus |-> 0, state |-> "up"]
HypB  == [name |-> "h1", id |-> "hidB", vcpus |-> 4, state |-> "up"]

Stat1 == [hypervisor_hostname |-> "h1", vcpus |-> 32]
Stat2 == [hypervisor_hostname |-> "h2", vcpus |-> 0]

TsNone  == [form |-> "none", month |-> 0, tz |-> FALSE]
TsAware == [form |-> "iso", month |-> 5, tz |-> TRUE]
TsNaive == [form |-> "iso", month |-> 6, tz |-> FALSE]
TsText  == [form |-> "text", month |-> 0, tz |-> FALSE]
TsRange == [form |-> "iso", month |-> 13, tz |-> FALSE]

\* one entry of an address group and one group of server.addresses
Ip(v, a) == [version |-> v, addr |-> <<a>>]

Net(name, addrs) == [name |-> name, addrs |-> addrs]

\* a server on two networks; the first entry of the first group is IPv6
TwoNetworks ==
    <<Net("private", <<Ip(6, "fd00::5"), Ip(4, "10.1.0.5"), Ip(4, "10.1.0.6")>>),
      Net("public", <<Ip(4, "203.0.113.5")>>)>>

\* the same networks reported in the other order
TwoNetworksSwapped == <<TwoNetworks[2], TwoNetworks[1]>>

\* a server with IPv6 entries only
OnlyIPv6 == <<Net("private", <<Ip(6, "fd00::5")>>), Net("public", <<>>)>>

Server(id, hh, ch, ts) ==
    [id |-> id, name |-> id, hypervisor_hostname |-> hh, compute_host |-> ch,
     launched_at |-> ts, addresses |-> TwoNetworks,
     flavor |-> IF id = "i2" THEN "m1.large" ELSE "m1.small",
     project_id |-> IF id = "i1" THEN "proj1" ELSE "proj2"]

ServerOn(id, hh, ch, ts, addresses) == [Server(id, hh, ch, ts) EXCEPT !.addresses = addresses]

Att(sid, dev) == [server_id |-> sid, device |-> dev]

Vol(id, atts) == [id |-> id, attachments |-> atts]

Svc(b, h, st) == [binary |-> b, host |-> h, status |-> st]

Flv(id, name, vcpus) == [id |-> id, name |-> name, vcpus |-> vcpus]

BaseA ==
    [fault |-> "none",
     svcs |-> <<Svc("nova-compute", "h1", "enabled")>>,
     nodes |-> <<Node1>>, nodesYielded |-> 1, nodesRaise |-> FALSE,
     hyps |-> <<Hyp1, Hyp2>>,
     stats |-> <<Stat1, Stat2>>, statsFail |-> FALSE,
     servers |-> <<Server("i1", "h1", "", TsAware), Server("i2", "", "h2", TsNone)>>,
     serversFail |-> FALSE,
     volumes |-> <<Vol("v1", <<Att("i1", "/dev/vda"), Att("i2", "/dev/vdb")>>)>>,
     volumesFail |-> FALSE,
     flavors |-> <<Flv("f1", "m1.small", 1), Flv("f2", "m1.large", 4)>>,
     tries |-> NoTries]

BaseB ==
    [fault |-> "none",
     svcs |-> <<Svc("nova-compute", "h1", "disabled")>>,
     nodes |-> <<>>, nodesYielded |-> 0, nodesRaise |-> FALSE,
     hyps |-> <<HypB>>,
     stats |-> <<>>, statsFail |-> FALSE,
     servers |-> <<>>, serversFail |-> FALSE,
     volumes |-> <<>>, volumesFail |-> FALSE,
     flavors |-> <<Flv("f3", "m1.small", 2), Flv("f1", "m1.small", 1)>>,
     tries |-> NoTries]

WithNodes(r, nodes, yielded, raise) ==
    [r EXCEPT !.nodes = nodes, !.nodesYielded = yielded, !.nodesRaise = raise]

\* the remote states of cluster A by name: the base state and the states
\* that differ from it in one respect
ScenariosA ==
    [base            |-> BaseA,
     connect_fails   |-> [BaseA EXCEPT !.fault = "connect"],
     no_endpoint     |-> [BaseA EXCEPT !.fault = "endpoint"],
     services_fail   |-> [BaseA EXCEPT !.fault = "services"],
     hypervisors_fail |-> [BaseA EXCEPT !.fault = "hypervisors"],
     no_hypervisor   |-> [BaseA EXCEPT !.hyps = <<>>],
     one_hypervisor  |-> [BaseA EXCEPT !.hyps = <<Hyp1x>>],
     no_service      |-> [BaseA EXCEPT !.svcs = <<>>],
     two_services    |-> [BaseA EXCEPT !.svcs = <<Svc("nova-compute", "h1", "disabled"),
                                                  Svc("nova-scheduler", "ctl", "enabled")>>],
     no_node         |-> WithNodes(BaseA, <<>>, 0, FALSE),
     two_nodes       |-> WithNodes(BaseA, <<Node1, Node2>>, 2, FALSE),
     nodes_raise_after_1 |-> WithNodes(BaseA, <<Node1, Node2>>, 1, TRUE),
     nodes_raise_at_once |-> WithNodes(BaseA, <<Node1, Node2>>, 0, TRUE),
     other_address   |-> WithNodes(BaseA, <<Node1b, NodeNone>>, 2, FALSE),
     scheme_only     |-> WithNodes(BaseA, <<Node1, Node1bad>>, 2, FALSE),
     stats_fail      |-> [BaseA EXCEPT !.statsFail = TRUE],
     no_stats        |-> [BaseA EXCEPT !.stats = <<>>],
     no_capacity     |-> [BaseA EXCEPT !.stats = <<>>,
                                       !.hyps = <<[Hyp1 EXCEPT !.vcpus = 0], Hyp2>>],
     servers_fail    |-> [BaseA EXCEPT !.serversFail = TRUE],
     no_server       |-> [BaseA EXCEPT !.servers = <<>>],
     moved_server    |-> [BaseA EXCEPT !.servers = <<Server("i1", "h2", "", TsNaive)>>],
     text_timestamp  |-> [BaseA EXCEPT !.servers = <<Server("i1", "h1", "", TsAware),
                                                     Server("i2", "h1", "", TsText)>>],
     bad_month       |-> [BaseA EXCEPT !.servers = <<Server("i1", "h1", "", TsRange),
                                                     Server("i2", "", "h2", TsNone)>>],
     no_ipv4         |-> [BaseA EXCEPT !.servers =
                                <<ServerOn("i1", "h1", "", TsAware, OnlyIPv6),
                                  ServerOn("i2", "", "h2", TsNone, <<>>),
                                  ServerOn("i3", "h1", "", TsNone, OnlyIPv6)>>],
     networks_swapped |-> [BaseA EXCEPT !.servers =
                                <<ServerOn("i1", "h1", "", TsAware, TwoNetworksSwapped),
                                  Server("i2", "", "h2", TsNone)>>],
     volumes_fail    |-> [BaseA EXCEPT !.volumesFail = TRUE],
     no_volume       |-> [BaseA EXCEPT !.volumes = <<>>],
     one_attachment  |-> [BaseA EXCEPT !.volumes = <<Vol("v1", <<Att("i2", "/dev/vdc")>>)>>],
     attachments_swapped |-> [BaseA EXCEPT !.volumes =
                                <<Vol("v1", <<Att("i2", "/dev/vdb"), Att("i1", "/dev/vda")>>)>>],
     flavors_fail    |-> [BaseA EXCEPT !.fault = "flavors"],
     services_flaky  |-> [BaseA EXCEPT !.tries.services = <<"ConnectFailure", "ServiceUnavailable">>],
     services_down   |-> [BaseA EXCEPT !.tries.services =
                                          <<"ConnectTimeout", "ConnectTimeout", "GatewayTimeout">>],
     services_flaky_fail |-> [BaseA EXCEPT !.fault = "services",
                                           !.tries.services = <<"ConnectFailure">>],
     hypervisors_flaky |-> [BaseA EXCEPT !.tries.hypervisors = <<"GatewayTimeout">>],
     nodes_flaky     |-> [BaseA EXCEPT !.tries.nodes = <<"ConnectTimeout">>],
     stats_flaky     |-> [BaseA EXCEPT !.tries.stats = <<"ServiceUnavailable">>],
     servers_flaky   |-> [BaseA EXCEPT !.tries.servers = <<"ConnectTimeout">>],
     volumes_flaky   |-> [BaseA EXCEPT !.tries.volumes = <<"GatewayTimeout">>]]

ScenariosB ==
    [base          |-> BaseB,
     connect_fails |-> [BaseB EXCEPT !.fault = "connect"]]

Scenarios(c) == IF c = "A" THEN ScenariosA ELSE ScenariosB

\* the names of the remote states cluster c may be in
RemoteStates(c) == DOMAIN Scenarios(c)

\* the remote state of cluster c
Remote(c) == Scenarios(c)[remote[c]]

(***************************************************************************)
(* sync_inventory (tasks.py 24-237), one action per step of a run.  A run  *)
(* belongs to a worker process w; run[w] holds its position and locals.    *)
(***************************************************************************)
Workers == {1, 2}

Active == {w \in Workers : w <= concurrency}

NoMaps == [bmc |-> EmptyMap, stats |-> EmptyMap, inst |-> EmptyMap, vol |-> EmptyMap]

IdleRun ==
    [pc |-> "idle", ci |-> 0, mem |-> [c \in Clusters |-> "unknown"],
     svcs |-> <<>>, k |-> 0, maps |-> NoMaps, hyps |-> <<>>, i |-> 0,
     host |-> 0, j |-> 0]

NoPass == [result |-> "none", written |-> {}, counted |-> 0, tried |-> NoTried]

\* the cluster whose pass worker w is in
Cur(w) == ClusterOrder[run[w].ci]

\* the servers of the host being synced: host_instance_map.get(host.hostname, [])
HostServers(r) == Get(r.maps.inst, r.hyps[r.i].name, <<>>)

\* history bookkeeping of a pass result
Note(w, c, res) == [hist EXCEPT !.pass[w][c].result = res]

\* history bookkeeping of the attempts a pass made of a call
Tried(h, w, c, call, n) == [h EXCEPT !.pass[w][c].tried[call] = n]

\* tasks.py 25-34: the task starts and loads the cluster rows
StartRun(w) ==
    /\ run[w].pc = "idle"
    /\ runs < MaxRuns
    /\ runs' = runs + 1
    /\ run' = [run EXCEPT ![w] = [IdleRun EXCEPT !.pc = "pass", !.ci = 1, !.mem = status]]
    /\ hist' = [hist EXCEPT !.pass[w] = [c \in Clusters |-> NoPass],
                            !.mark[w] = Len(audit)]
    /\ UNCHANGED <<remote, status, hosts, services, instances, volumes, audit, concurrency, hwVars>>

\* tasks.py 38-47: connect, detect the version, mark online, fetch services
BeginPass(w) ==
    /\ run[w].pc = "pass"
    /\ LET c   == Cur(w)
           r   == Remote(c)
           got == Fetch(r, "services")
       IN IF r.fault \in {"connect", "endpoint"}
          THEN /\ run' = [run EXCEPT ![w].pc = "fail"]
               /\ UNCHANGED <<status, hist>>
          ELSE /\ status' = IF run[w].mem[c] # "online"
                            THEN [status EXCEPT ![c] = "online"] ELSE status
               /\ run' = [run EXCEPT ![w].mem[c] = "online",
                                     ![w].pc = IF got.error # "none" THEN "fail" ELSE "services",
                                     ![w].svcs = IF got.error # "none" THEN <<>> ELSE r.svcs,
                                     ![w].k = 1]
               /\ hist' = Tried(hist, w, c, "services", got.attempts)
    /\ UNCHANGED <<remote, hosts, services, instances, volumes, audit, concurrency, runs, hwVars>>

\* tasks.py 48-52: update_or_create of one service.  The row is looked up;
\* a found row is updated under its row lock, a missing one is created in
\* a later statement; several matching rows raise MultipleObjectsReturned.
SyncService(w) ==
    /\ run[w].pc = "services"
    /\ run[w].k <= Len(run[w].svcs)
    /\ LET c   == Cur(w)
           svc == run[w].svcs[run[w].k]
           m   == ServiceMatches(services, c, svc)
       IN IF Cardinality(m) > 1
          THEN /\ run' = [run EXCEPT ![w].pc = "fail"]
               /\ UNCHANGED services
          ELSE IF m = {}
          THEN /\ run' = [run EXCEPT ![w].pc = "svc_create"]
               /\ UNCHANGED services
          ELSE /\ services' = [services EXCEPT ![CHOOSE p \in m : TRUE] = ServiceRow(c, svc)]
               /\ run' = [run EXCEPT ![w].k = @ + 1]
    /\ UNCHANGED <<remote, status, hosts, instances, volumes, audit, concurrency, runs, hist, hwVars>>

\* update_or_create of a service, the INSERT after a lookup that found nothing
CreateService(w) ==
    /\ run[w].pc = "svc_create"
    /\ services' = Append(services, ServiceRow(Cur(w), run[w].svcs[run[w].k]))
    /\ run' = [run EXCEPT ![w].pc = "services", ![w].k = @ + 1]
    /\ UNCHANGED <<remote, status, hosts, instances, volumes, audit, concurrency, runs, hist, hwVars>>

\* tasks.py 57-121: the BMC map, the hypervisor list and the three bulk maps
BuildMaps(w) ==
    /\ run[w].pc = "services"
    /\ run[w].k > Len(run[w].svcs)
    /\ LET c   == Cur(w)
           r   == Remote(c)
           got == Fetch(r, "hypervisors")
           h1  == Tried(Tried(hist, w, c, "nodes", Fetch(r, "nodes").attempts),
                        w, c, "hypervisors", got.attempts)
       IN IF got.error # "none"
          THEN /\ run' = [run EXCEPT ![w].pc = "fail",
                                     ![w].maps = [NoMaps EXCEPT !.bmc = BuildBmcMap(r)]]
               /\ hist' = h1
          ELSE /\ run' = [run EXCEPT ![w].pc = "hosts",
                                     ![w].hyps = r.hyps,
                                     ![w].i = 1,
                                     ![w].maps = [bmc   |-> BuildBmcMap(r),
                                                  stats |-> BuildStatsMap(r),
                                                  inst  |-> BuildInstanceMap(r),
                                                  vol   |-> BuildVolumeMap(r)]]
               /\ hist' = Tried(Tried(Tried(h1, w, c, "stats", Fetch(r, "stats").attempts),
                                      w, c, "servers", Fetch(r, "servers").attempts),
                                w, c, "volumes", Fetch(r, "volumes").attempts)
    /\ UNCHANGED <<remote, status, hosts, services, instances, volumes, audit,
                   concurrency, runs, hwVars>>

\* where the run stands once host `pk` is upserted: at its first server, or
\* at the next hypervisor when the host has none
AtHost(r, pk) ==
    IF HostServers(r) = <<>>
    THEN [r EXCEPT !.pc = "hosts", !.i = @ + 1, !.host = pk]
    ELSE [r EXCEPT !.pc = "instances", !.host = pk, !.j = 1]

Wrote(w, c, name) == [hist EXCEPT !.pass[w][c].written = @ \cup {name}]

\* tasks.py 126-157: update_or_create of one hypervisor's host row
SyncHost(w) ==
    /\ run[w].pc = "hosts"
    /\ run[w].i <= Len(run[w].hyps)
    /\ LET c   == Cur(w)
           hyp == run[w].hyps[run[w].i]
           v   == HostValues(hyp, run[w].maps)
           m   == HostMatches(hosts, c, hyp.name)
       IN IF Cardinality(m) > 1
          THEN /\ run' = [run EXCEPT ![w].pc = "fail"]
               /\ UNCHANGED <<hosts, hist>>
          ELSE IF m = {}
          THEN /\ run' = [run EXCEPT ![w].pc = "host_create"]
               /\ UNCHANGED <<hosts, hist>>
          ELSE LET pk == CHOOSE p \in m : TRUE
               IN /\ hosts' = [hosts EXCEPT ![pk] = UpdateHostRow(@, v)]
                  /\ run' = [run EXCEPT ![w] = AtHost(@, pk)]
                  /\ hist' = Wrote(w, c, hyp.name)
    /\ UNCHANGED <<remote, status, services, instances, volumes, audit, concurrency, runs, hwVars>>

\* update_or_create of a host, the INSERT after a lookup that found nothing
CreateHost(w) ==
    /\ run[w].pc = "host_create"
    /\ LET c   == Cur(w)
           hyp == run[w].hyps[run[w].i]
       IN /\ hosts' = Append(hosts, NewHostRow(c, hyp.name, HostValues(hyp, run[w].maps)))
          /\ run' = [run EXCEPT ![w] = AtHost(@, Len(hosts) + 1)]
          /\ hist' = Wrote(w, c, hyp.name)
    /\ UNCHANGED <<remote, status, services, instances, volumes, audit, concurrency, runs, hwVars>>

\* tasks.py 162-221: one server of the current host: launch timestamp,
\* instance upsert, then the upserts of its volumes
SyncInstance(w) ==
    /\ run[w].pc = "instances"
    /\ LET r    == run[w]
           list == HostServers(r)
           srv  == list[r.j]
           la   == LaunchedAt(srv.launched_at)
       IN IF la.raised
          THEN /\ run' = [run EXCEPT ![w].pc = "fail"]
               /\ UNCHANGED <<instances, volumes>>
          ELSE /\ instances' = UpsertInstance(instances, srv, r.host, la.value)
               /\ volumes' = UpsertVolumes(volumes, srv.id, Get(r.maps.vol, srv.id, <<>>))
               /\ run' = IF r.j < Len(list)
                         THEN [run EXCEPT ![w].j = @ + 1]
                         ELSE [run EXCEPT ![w].pc = "hosts", ![w].i = @ + 1]
    /\ UNCHANGED <<remote, status, hosts, services, audit, concurrency, runs, hist, hwVars>>

\* the loop over the clusters moves on
NextCluster(r) ==
    IF r.ci < Len(ClusterOrder)
    THEN [r EXCEPT !.pc = "pass", !.ci = @ + 1]
    ELSE [r EXCEPT !.pc = "done"]

\* tasks.py 223-224: the pass ends, its audit entry is appended
FinishPass(w) ==
    /\ run[w].pc = "hosts"
    /\ run[w].i > Len(run[w].hyps)
    /\ audit' = AuditCreate(audit, [action |-> "Inventory Sync Success", target |-> Cur(w),
                               count |-> Len(run[w].hyps)])
    /\ run' = [run EXCEPT ![w] = NextCluster(@)]
    /\ hist' = [hist EXCEPT !.pass[w][Cur(w)].result = "ok",
                            !.pass[w][Cur(w)].counted = Len(run[w].hyps)]
    /\ UNCHANGED <<remote, status, hosts, services, instances, volumes, concurrency, runs, hwVars>>

\* the except clauses outside the loop over the clusters: a failure ends
\* the run
AfterFailureEndsRun(r, c) == [r EXCEPT !.mem[c] = "offline", !.pc = "done"]

\* the except clauses sit inside the loop over the clusters: once the status
\* is flipped the loop goes on with the next cluster
AfterFailure(r, c) == NextCluster([r EXCEPT !.mem[c] = "offline"])

\* handlers that leave the stored status alone
MarkOfflineNever(st, mem, c) == st

\* tasks.py 228-230, 233-235: the status is flipped and saved unless the
\* cluster object already says offline
MarkOffline(st, mem, c) ==
    IF mem[c] # "offline" THEN [st EXCEPT ![c] = "offline"] ELSE st

\* tasks.py 226-235: the handlers at the cluster boundary
FailPass(w) ==
    /\ run[w].pc = "fail"
    /\ LET c == Cur(w)
       IN /\ status' = MarkOffline(status, run[w].mem, c)
          /\ run' = [run EXCEPT ![w] = AfterFailure(@, c)]
          /\ hist' = Note(w, c, "failed")
    /\ UNCHANGED <<remote, hosts, services, instances, volumes, audit, concurrency, runs, hwVars>>

\* the stored rows a run is compared by
Rows == [hosts |-> hosts, services |-> services, instances |-> instances,
         volumes |-> volumes]

\* tasks.py 237: the task returns
EndRun(w) ==
    /\ run[w].pc = "done"
    /\ run' = [run EXCEPT ![w] = [IdleRun EXCEPT !.mem = run[w].mem]]
    /\ hist' = [hist EXCEPT !.snap = Rows, !.ended = @ + 1, !.stable = TRUE]
    /\ UNCHANGED <<remote, status, hosts, services, instances, volumes, audit,
                   concurrency, runs, hwVars>>

\* the place a deleted PhysicalHost row leaves behind: primary keys are not
\* reused, and no lookup by cluster, hostname or BMC address finds it
GoneHost == NewHostRow("", "", [idrac_ip |-> NoAddr, cpu_count |-> 0, state |-> ""])

HostExists(tbl, pk) == pk \in DOMAIN tbl /\ tbl[pk] # GoneHost

\* models.py 159: Instance.host is on_delete=CASCADE: the instances of a
\* deleted host are deleted with it
CascadeInstances(tbl, pk) ==
    [i \in {x \in DOMAIN tbl : tbl[x].host # pk} |-> tbl[i]]

\* models.py 183: Volume.instance is on_delete=CASCADE
CascadeVolumes(tbl, insts) ==
    [v \in {x \in DOMAIN tbl : tbl[x].instance \in DOMAIN insts} |-> tbl[v]]

\* admin.py 9-12: the operator deletes a PhysicalHost in the admin, while
\* no run or job is in flight; the deletion cascades to the host's
\* instances, their volumes and the host's alerts (models.py 159, 183, 196)
DeleteHost ==
    /\ \A w \in Workers : run[w].pc = "idle" /\ job[w].kind = "none"
    /\ ops < MaxOps
    /\ ops' = ops + 1
    /\ \E pk \in DOMAIN hosts :
         /\ HostExists(hosts, pk)
         /\ hosts' = [hosts EXCEPT ![pk] = GoneHost]
         /\ instances' = CascadeInstances(instances, pk)
         /\ volumes' = CascadeVolumes(volumes, instances')
         /\ alerts' = SelectSeq(alerts, LAMBDA a : a.target_host # pk)
    /\ UNCHANGED <<remote, status, services, audit, run, runs, hist, concurrency,
                   bmc, ome, portal, job, jobs, flavors, op, caller, shist, costVars>>

\* a cluster deletion that leaves the rows of the cluster's hosts in place
HostsWithoutClusterKept(tbl, c) == tbl

\* models.py 124: PhysicalHost.cluster is on_delete=CASCADE: the hosts of a
\* deleted cluster are deleted with it
HostsWithoutCluster(tbl, c) ==
    [p \in DOMAIN tbl |-> IF tbl[p].cluster = c THEN GoneHost ELSE tbl[p]]

\* models.py 159: the instances of the deleted hosts go with them
InstancesOnStoredHosts(tbl, hostTbl) ==
    [i \in {x \in DOMAIN tbl : tbl[x].host = 0 \/ HostExists(hostTbl, tbl[x].host)} |-> tbl[i]]

\* views.py 521-528: admin_settings, action delete_cluster: the cluster row
\* is looked up and deleted, and the audit entry written. The deletion
\* cascades to the cluster's flavors, services and hosts (models.py 99, 111,
\* 124), from the hosts to their instances and alerts (159, 196) and from
\* the instances to their volumes (183). The request is made while no job
\* or run is in flight
DeleteCluster ==
    /\ \A w \in Workers : run[w].pc = "idle" /\ job[w].kind = "none"
    /\ ops < MaxOps
    /\ ops' = ops + 1
    /\ \E c \in Clusters :
         /\ status[c] # "deleted"
         /\ status' = [status EXCEPT ![c] = "deleted"]
         /\ hosts' = HostsWithoutCluster(hosts, c)
         /\ instances' = InstancesOnStoredHosts(instances, hosts')
         /\ volumes' = CascadeVolumes(volumes, instances')
         /\ services' = SelectSeq(services, LAMBDA r : r.cluster # c)
         /\ flavors' = [f \in {x \in DOMAIN flavors : flavors[x].cluster # c} |-> flavors[f]]
         /\ alerts' = SelectSeq(alerts, LAMBDA a : HostExists(hosts', a.target_host))
         /\ audit' = AuditCreate(audit, [action |-> "Cluster Deleted", target |-> c,
                                         count |-> 0])
    /\ UNCHANGED <<remote, run, runs, hist, concurrency, bmc, ome, portal, job, jobs,
                   op, caller, shist, costVars>>

\* the environment: between two runs a cluster's remote state changes
RemoteChange ==
    /\ \A w \in Workers : run[w].pc = "idle"
    /\ runs >= 1
    /\ runs < MaxRuns
    /\ \E c \in Clusters : \E r \in RemoteStates(c) :
          /\ r # remote[c]
          /\ remote' = [remote EXCEPT ![c] = r]
    /\ hist' = [hist EXCEPT !.stable = FALSE]
    /\ UNCHANGED <<status, hosts, services, instances, volumes, audit, concurrency,
                   run, runs, hwVars>>

(***************************************************************************)
(* The environment of the hardware jobs: how a BMC endpoint behaves and    *)
(* what the OpenManage service answers.                                    *)
(***************************************************************************)
\* a BMC endpoint: whether creating the client, logging in and logging out
\* succeed, the status of the two system queries (0: the query raises) and
\* the health the system reports
Endpoint(create, login, first, second, health, logout) ==
    [create |-> create, login |-> login, first |-> first, second |-> second,
     health |-> health, logout |-> logout]

Endpoints ==
    [healthy       |-> Endpoint(TRUE, TRUE, 200, 200, "OK", TRUE),
     warning       |-> Endpoint(TRUE, TRUE, 200, 200, "Warning", TRUE),
     critical_alt  |-> Endpoint(TRUE, TRUE, 404, 200, "Critical", TRUE),
     unreachable   |-> Endpoint(FALSE, FALSE, 0, 0, "Unknown", TRUE),
     login_refused |-> Endpoint(TRUE, FALSE, 0, 0, "Unknown", TRUE),
     query_raises  |-> Endpoint(TRUE, TRUE, 0, 0, "Unknown", TRUE),
     no_system     |-> Endpoint(TRUE, TRUE, 404, 404, "Unknown", TRUE),
     logout_raises |-> Endpoint(TRUE, TRUE, 200, 200, "Warning", FALSE)]

BmcAddr1 == NormalizeAddress(Addr1)

BmcAddr2 == NormalizeAddress(Addr2)

BmcAddresses == {BmcAddr1, BmcAddr2}

Device(name, addr, tag, model, st) ==
    [DeviceName |-> name, NetworkAddress |-> addr, DeviceServiceTag |-> tag,
     Model |-> model, Status |-> st]

OmeAlertMsg(addr, id, sev) == [MachineAddress |-> addr, MessageId |-> id, SeverityType |-> sev]

\* what OpenManage answers: the status of the two requests (0: the request
\* raises) and the lists they return
OmeBase ==
    [devicesStatus |-> 200,
     devices |-> <<Device("H2", BmcAddr1, "TAG1", "R740", "1000"),
                   Device("H1", NoAddr, "TAG2", "R640", "3000"),
                   Device("other", Addr9, "TAG3", "R940", "2000")>>,
     alertsStatus |-> 200,
     alertList |-> <<OmeAlertMsg(BmcAddr1, "CPU0001", "Critical"),
                     OmeAlertMsg(Addr9, "FAN0002", "Warning"),
                     OmeAlertMsg(BmcAddr2, "", "Warning")>>]

OmeAnswers ==
    [base          |-> OmeBase,
     devices_raise |-> [OmeBase EXCEPT !.devicesStatus = 0],
     devices_500   |-> [OmeBase EXCEPT !.devicesStatus = 500],
     alerts_raise  |-> [OmeBase EXCEPT !.alertsStatus = 0],
     alerts_500    |-> [OmeBase EXCEPT !.alertsStatus = 500]]

(***************************************************************************)
(* collect_hardware_health (tasks.py 362-414).                             *)
(***************************************************************************)
IdleJob == [kind |-> "none", pc |-> "idle", items |-> <<>>, n |-> 0, pk |-> 0,
            obj |-> <<>>, count |-> 0, polled |-> {}]

\* PhysicalHost.objects.exclude(idrac_ip__isnull=True).exclude(idrac_ip__exact=''):
\* the pks, in pk order
RECURSIVE PksWithBmc(_, _)
PksWithBmc(tbl, p) ==
    IF p > Len(tbl) THEN <<>>
    ELSE (IF tbl[p].idrac_ip # NoAddr THEN <<p>> ELSE <<>>) \o PksWithBmc(tbl, p + 1)

\* what the try block would make of an endpoint if every health that was read
\* were recorded
PollOutcomeAnyHealth(e) ==
    IF ~e.create THEN "no_client"
    ELSE IF ~e.login \/ e.first = 0 THEN "quiet"
    ELSE LET st == IF e.first # 200 THEN e.second ELSE e.first
         IN IF st = 200 THEN "alert" ELSE "quiet"

\* tasks.py 374-390: what the try block makes of an endpoint: "no_client"
\* (the client was never created), "alert" (a Warning or Critical health was
\* read) or "quiet" (nothing to record, or an exception that was swallowed)
PollOutcome(e) ==
    IF ~e.create THEN "no_client"
    ELSE IF ~e.login \/ e.first = 0 THEN "quiet"
    ELSE LET st == IF e.first # 200 THEN e.second ELSE e.first
         IN IF st = 200 /\ e.health \in {"Warning", "Critical"} THEN "alert" ELSE "quiet"

\* f"System Health: {health}"
HealthTitle(health) ==
    IF health = "Critical" THEN "System Health: Critical" ELSE "System Health: Warning"

\* a lookup that would see the active alerts only
AlertMatchesActive(tbl, pk, title) ==
    {a \in DOMAIN tbl : tbl[a].target_host = pk /\ tbl[a].title = title /\ tbl[a].is_active}

\* Alert.objects.filter(target_host=host, title=title)
AlertMatches(tbl, pk, title) ==
    {a \in DOMAIN tbl : tbl[a].target_host = pk /\ tbl[a].title = title}

AlertRow(pk, title, source, severity) ==
    [target_host |-> pk, title |-> title, source |-> source, severity |-> severity,
     is_active |-> TRUE]

\* tasks.py 368-369: the task starts and selects the hosts with a BMC address
StartPoll(w) ==
    /\ job[w].kind = "none"
    /\ jobs < MaxJobs
    /\ jobs' = jobs + 1
    /\ job' = [job EXCEPT ![w] = [IdleJob EXCEPT !.kind = "poll", !.pc = "poll",
                                                 !.items = PksWithBmc(hosts, 1), !.n = 1]]
    /\ UNCHANGED <<opVars, syncVars, hosts, audit, concurrency, bmc, ome, portal, alerts>>

\* the finally clause: logout when a client exists, then the next host
AfterTry(j, e) ==
    IF ~e.create THEN [j EXCEPT !.n = @ + 1] ELSE [j EXCEPT !.pc = "logout"]

\* tasks.py 371-401: one host: client, login, health query and the lookup
\* of get_or_create; an exception of the try block is swallowed
PollHost(w) ==
    /\ job[w].kind = "poll" /\ job[w].pc = "poll"
    /\ job[w].n <= Len(job[w].items)
    /\ LET pk    == job[w].items[job[w].n]
           e     == Endpoints[bmc[hosts[pk].idrac_ip]]
           title == HealthTitle(e.health)
           m     == AlertMatches(alerts, pk, title)
           j     == [job[w] EXCEPT !.polled = @ \cup {pk}, !.pk = pk]
       IN IF PollOutcome(e) # "alert" \/ Cardinality(m) > 1
          THEN /\ job' = [job EXCEPT ![w] = AfterTry(j, e)]
               /\ UNCHANGED audit
          ELSE IF m = {}
          THEN /\ job' = [job EXCEPT ![w] = [j EXCEPT !.pc = "alert_create"]]
               /\ UNCHANGED audit
          ELSE /\ audit' = AuditCreate(audit, [action |-> "Hardware Issue Detected",
                                          target |-> hosts[pk].hostname, count |-> 0])
               /\ job' = [job EXCEPT ![w] = AfterTry(j, e)]
    /\ UNCHANGED <<opVars, syncVars, hosts, concurrency, bmc, ome, portal, alerts, jobs>>

\* tasks.py 392-407: get_or_create, the INSERT after a lookup that found
\* nothing, and the audit entry
CreateHealthAlert(w) ==
    /\ job[w].kind = "poll" /\ job[w].pc = "alert_create"
    /\ LET pk == job[w].pk
           e  == Endpoints[bmc[hosts[pk].idrac_ip]]
       IN /\ alerts' = Append(alerts, AlertRow(pk, HealthTitle(e.health), "Redfish",
                                IF e.health = "Critical" THEN "critical" ELSE "warning"))
          /\ audit' = AuditCreate(audit, [action |-> "Hardware Issue Detected",
                                     target |-> hosts[pk].hostname, count |-> 0])
          /\ job' = [job EXCEPT ![w] = AfterTry(@, e)]
    /\ UNCHANGED <<opVars, syncVars, hosts, concurrency, bmc, ome, portal, jobs>>

\* where the job stands after the logout of the finally clause: an
\* exception of logout() is outside the try block and ends the task
AfterLogout(j, e) ==
    IF e.logout THEN [j EXCEPT !.pc = "poll", !.n = @ + 1] ELSE [j EXCEPT !.pc = "raised"]

\* tasks.py 412-414: the logout of the finally clause
Logout(w) ==
    /\ job[w].kind = "poll" /\ job[w].pc = "logout"
    /\ job' = [job EXCEPT ![w] = AfterLogout(@, Endpoints[bmc[hosts[job[w].pk].idrac_ip]])]
    /\ UNCHANGED <<opVars, syncVars, hosts, audit, concurrency, bmc, ome, portal, alerts, jobs>>

\* the loop over the hosts is through: the task returns
EndPoll(w) ==
    /\ job[w].kind = "poll" /\ job[w].pc = "poll"
    /\ job[w].n > Len(job[w].items)
    /\ job' = [job EXCEPT ![w].pc = "returned"]
    /\ UNCHANGED <<opVars, syncVars, hosts, audit, concurrency, bmc, ome, portal, alerts, jobs>>

\* the worker is free for its next task
EndJob(w) ==
    /\ job[w].pc \in {"returned", "raised"}
    /\ job' = [job EXCEPT ![w] = IdleJob]
    /\ UNCHANGED <<opVars, syncVars, hosts, audit, concurrency, bmc, ome, portal, alerts, jobs>>

(***************************************************************************)
(* PortalSettings (models.py 15-38): the settings singleton and its        *)
(* callers (views.py 339, 387, 502; services/cost_service.py).             *)
(***************************************************************************)
\* the row get_or_create(pk=1) inserts: the model defaults
\* models.py 15-25: the field defaults; electricity_cost (0.1200 per kWh)
\* and pue (1.50) are held in hundredths
DefaultSettings ==
    [pk |-> 1, ome_url |-> "", sync_interval_minutes |-> 10,
     electricity_cost |-> 12, pue |-> 150]

ConfiguredSettings == [DefaultSettings EXCEPT !.ome_url = "https://ome"]

\* the values an administrator may give the two fields
SettingsValues == [ome_url : {"", "https://ome"}, sync_interval_minutes : {10, 30}]

\* the rows of identity key 1
SettingsRows(tbl) == {i \in DOMAIN tbl : tbl[i].pk = 1}

\* an INSERT on a table without the primary key constraint
PkTakenNever(tbl, pk) == FALSE

\* the primary key constraint: an INSERT of a key that is taken raises
\* IntegrityError
PkTaken(tbl, pk) == \E i \in DOMAIN tbl : tbl[i].pk = pk

\* the row of key 1 (the first of them, were there several)
SettingsObject(tbl) == tbl[CHOOSE i \in SettingsRows(tbl) : \A k \in SettingsRows(tbl) : i <= k]

\* PortalSettings.get_settings() by a caller nothing interleaves with: the
\* table afterwards
GetSettings(tbl) == IF PkTaken(tbl, 1) THEN tbl ELSE Append(tbl, DefaultSettings)

Callers == {1, 2}

IdleCaller == [pc |-> "idle", obj |-> <<>>]

NoSettingsHistory == [got |-> FALSE, saved |-> <<>>]

\* get_or_create(pk=1), the lookup: the row is returned, or DoesNotExist
\* leads to the INSERT
SettingsLookup(u) ==
    /\ caller[u].pc = "idle"
    /\ IF SettingsRows(portal) # {}
       THEN /\ caller' = [caller EXCEPT ![u] = [pc |-> "has", obj |-> <<SettingsObject(portal)>>]]
            /\ shist' = [shist EXCEPT !.got = TRUE]
       ELSE /\ caller' = [caller EXCEPT ![u].pc = "create"]
            /\ UNCHANGED shist
    /\ UNCHANGED <<syncVars, hosts, audit, concurrency, bmc, ome, portal, alerts, job, jobs,
                   flavors, op, ops, costVars>>

\* get_or_create(pk=1), the INSERT: on IntegrityError the row that won the
\* race is fetched and returned
SettingsCreate(u) ==
    /\ caller[u].pc = "create"
    /\ IF PkTaken(portal, 1)
       THEN /\ caller' = [caller EXCEPT ![u] = [pc |-> "has", obj |-> <<SettingsObject(portal)>>]]
            /\ UNCHANGED portal
       ELSE /\ portal' = Append(portal, DefaultSettings)
            /\ caller' = [caller EXCEPT ![u] = [pc |-> "has", obj |-> <<DefaultSettings>>]]
    /\ shist' = [shist EXCEPT !.got = TRUE]
    /\ UNCHANGED <<syncVars, hosts, audit, concurrency, bmc, ome, alerts, job, jobs,
                   flavors, op, ops, costVars>>

\* the caller sets fields on its object (views.py 561-597)
SettingsEdit(u) ==
    /\ caller[u].pc = "has"
    /\ \E v \in SettingsValues :
          /\ <<v.ome_url, v.sync_interval_minutes>>
                # <<caller[u].obj[1].ome_url, caller[u].obj[1].sync_interval_minutes>>
          /\ caller' = [caller EXCEPT ![u] =
                          [pc |-> "edited",
                           obj |-> <<[caller[u].obj[1] EXCEPT
                                        !.ome_url = v.ome_url,
                                        !.sync_interval_minutes = v.sync_interval_minutes]>>]]
    /\ UNCHANGED <<syncVars, hosts, audit, concurrency, bmc, ome, portal, alerts, job, jobs,
                   flavors, op, ops, shist, costVars>>

\* models.py 28-30: save() sets pk = 1 and writes every field: the row of
\* key 1 is updated, or inserted when there is none
SettingsSave(u) ==
    /\ caller[u].pc = "edited"
    /\ LET obj == [caller[u].obj[1] EXCEPT !.pk = 1]
       IN /\ portal' = IF SettingsRows(portal) # {}
                       THEN [i \in DOMAIN portal |->
                               IF portal[i].pk = 1 THEN obj ELSE portal[i]]
                       ELSE Append(portal, obj)
          /\ shist' = [shist EXCEPT !.saved = <<obj>>]
    /\ caller' = [caller EXCEPT ![u] = IdleCaller]
    /\ UNCHANGED <<syncVars, hosts, audit, concurrency, bmc, ome, alerts, job, jobs,
                   flavors, op, ops, costVars>>

\* a caller that only reads (cost_service.py 39, 85, 135, 160) is done
SettingsDone(u) ==
    /\ caller[u].pc = "has"
    /\ caller' = [caller EXCEPT ![u] = IdleCaller]
    /\ UNCHANGED <<syncVars, hosts, audit, concurrency, bmc, ome, portal, alerts, job, jobs,
                   flavors, op, ops, shist, costVars>>

(***************************************************************************)
(* sync_openmanage (tasks.py 278-360).                                     *)
(***************************************************************************)
\* str.lower() of the names the model uses, for hostname__iexact
Lower(name) ==
    CASE name = "H1" -> "h1"
      [] name = "H2" -> "h2"
      [] OTHER -> name

\* queryset.first(): the matching row of lowest pk, 0 when there is none
First(pks) == IF pks = {} THEN 0 ELSE CHOOSE p \in pks : \A q \in pks : p <= q

\* the host of a device when the name is tried before the management address
DeviceHostByName(tbl, device) ==
    LET byName == First({p \in DOMAIN tbl : Lower(tbl[p].hostname) = Lower(device.DeviceName)})
    IN IF byName # 0 THEN byName
       ELSE IF device.NetworkAddress # NoAddr
       THEN First({p \in DOMAIN tbl : tbl[p].idrac_ip = device.NetworkAddress})
       ELSE 0

\* tasks.py 304-314: the host of a device: by management address when the
\* device has one and a host holds it, else by name without regard to case
DeviceHost(tbl, device) ==
    LET byIp == IF device.NetworkAddress # NoAddr
                THEN First({p \in DOMAIN tbl : tbl[p].idrac_ip = device.NetworkAddress})
                ELSE 0
    IN IF byIp # 0 THEN byIp
       ELSE First({p \in DOMAIN tbl : Lower(tbl[p].hostname) = Lower(device.DeviceName)})

\* tasks.py 324-330: the status mapping
DeviceHealth(st) ==
    IF st = "1000" THEN "OK" ELSE IF st = "3000" THEN "Critical" ELSE "Warning"

\* tasks.py 318-330: the fields set on the host object in memory
WithDevice(row, device) ==
    [row EXCEPT !.service_tag = device.DeviceServiceTag,
                !.cpu_model = device.Model,
                !.hardware_health = DeviceHealth(device.Status)]

\* tasks.py 284-299: the settings, then the device request
StartOme(w) ==
    /\ job[w].kind = "none"
    /\ jobs < MaxJobs
    /\ jobs' = jobs + 1
    /\ portal' = GetSettings(portal)
    /\ LET a == OmeAnswers[ome]
           j == [IdleJob EXCEPT !.kind = "ome"]
       IN job' = [job EXCEPT ![w] =
                    IF SettingsObject(portal').ome_url = "" THEN [j EXCEPT !.pc = "returned"]
                    ELSE IF a.devicesStatus = 0 THEN [j EXCEPT !.pc = "ome_failed"]
                    ELSE IF a.devicesStatus = 200
                    THEN [j EXCEPT !.pc = "device", !.items = a.devices, !.n = 1]
                    ELSE [j EXCEPT !.pc = "alerts_fetch"]]
    /\ UNCHANGED <<opVars, syncVars, hosts, audit, concurrency, bmc, ome, alerts>>

\* tasks.py 302-330: one device: the host is read and changed in memory
OmeDevice(w) ==
    /\ job[w].kind = "ome" /\ job[w].pc = "device"
    /\ job[w].n <= Len(job[w].items)
    /\ LET device == job[w].items[job[w].n]
           pk     == DeviceHost(hosts, device)
       IN job' = [job EXCEPT ![w] =
                    IF pk = 0 THEN [@ EXCEPT !.n = @ + 1]
                    ELSE [@ EXCEPT !.pc = "device_save", !.pk = pk,
                                   !.obj = <<WithDevice(hosts[pk], device)>>]]
    /\ UNCHANGED <<opVars, syncVars, hosts, audit, concurrency, bmc, ome, portal, alerts, jobs>>

\* tasks.py 332-333: host.save() writes every field of the object in memory
OmeSave(w) ==
    /\ job[w].kind = "ome" /\ job[w].pc = "device_save"
    /\ hosts' = [hosts EXCEPT ![job[w].pk] = job[w].obj[1]]
    /\ job' = [job EXCEPT ![w].pc = "device", ![w].n = @ + 1, ![w].count = @ + 1,
                          ![w].obj = <<>>]
    /\ UNCHANGED <<opVars, syncVars, audit, concurrency, bmc, ome, portal, alerts, jobs>>

\* tasks.py 335-336: the device loop is through, its audit entry is appended
OmeDevicesDone(w) ==
    /\ job[w].kind = "ome" /\ job[w].pc = "device"
    /\ job[w].n > Len(job[w].items)
    /\ audit' = AuditCreate(audit, [action |-> "OME Sync Success", target |-> "OpenManage",
                               count |-> job[w].count])
    /\ job' = [job EXCEPT ![w].pc = "alerts_fetch"]
    /\ UNCHANGED <<opVars, syncVars, hosts, concurrency, bmc, ome, portal, alerts, jobs>>

\* tasks.py 339-341: the alert request
OmeFetchAlerts(w) ==
    /\ job[w].kind = "ome" /\ job[w].pc = "alerts_fetch"
    /\ LET a == OmeAnswers[ome]
       IN job' = [job EXCEPT ![w] =
                    IF a.alertsStatus = 0 THEN [@ EXCEPT !.pc = "ome_failed"]
                    ELSE IF a.alertsStatus = 200
                    THEN [@ EXCEPT !.pc = "alert", !.items = a.alertList, !.n = 1]
                    ELSE [@ EXCEPT !.pc = "returned"]]
    /\ UNCHANGED <<opVars, syncVars, hosts, audit, concurrency, bmc, ome, portal, alerts, jobs>>

\* alert.get('MessageId', 'OME Alert')
OmeTitle(al) == IF al.MessageId = "" THEN "OME Alert" ELSE al.MessageId

\* tasks.py 342-356: one alert: its host by address, then the lookup of
\* get_or_create; MultipleObjectsReturned reaches the outer except clause
OmeAlert(w) ==
    /\ job[w].kind = "ome" /\ job[w].pc = "alert"
    /\ job[w].n <= Len(job[w].items)
    /\ LET al == job[w].items[job[w].n]
           pk == First({p \in DOMAIN hosts : hosts[p].idrac_ip = al.MachineAddress})
           m  == AlertMatches(alerts, pk, OmeTitle(al))
       IN job' = [job EXCEPT ![w] =
                    IF pk = 0 THEN [@ EXCEPT !.n = @ + 1]
                    ELSE IF Cardinality(m) > 1 THEN [@ EXCEPT !.pc = "ome_failed"]
                    ELSE IF m = {} THEN [@ EXCEPT !.pc = "ome_alert_create", !.pk = pk]
                    ELSE [@ EXCEPT !.n = @ + 1]]
    /\ UNCHANGED <<opVars, syncVars, hosts, audit, concurrency, bmc, ome, portal, alerts, jobs>>

\* get_or_create, the INSERT after a lookup that found nothing
OmeCreateAlert(w) ==
    /\ job[w].kind = "ome" /\ job[w].pc = "ome_alert_create"
    /\ LET al == job[w].items[job[w].n]
       IN alerts' = Append(alerts, AlertRow(job[w].pk, OmeTitle(al), "OpenManage",
                             IF al.SeverityType = "Critical" THEN "critical" ELSE "warning"))
    /\ job' = [job EXCEPT ![w].pc = "alert", ![w].n = @ + 1]
    /\ UNCHANGED <<opVars, syncVars, hosts, audit, concurrency, bmc, ome, portal, jobs>>

\* the alert loop is through: the task returns
OmeDone(w) ==
    /\ job[w].kind = "ome" /\ job[w].pc = "alert"
    /\ job[w].n > Len(job[w].items)
    /\ job' = [job EXCEPT ![w].pc = "returned"]
    /\ UNCHANGED <<opVars, syncVars, hosts, audit, concurrency, bmc, ome, portal, alerts, jobs>>

\* tasks.py 358-360: the except clause of the task
OmeFail(w) ==
    /\ job[w].kind = "ome" /\ job[w].pc = "ome_failed"
    /\ audit' = AuditCreate(audit, [action |-> "OME Sync Failed", target |-> "OpenManage",
                               count |-> 0])
    /\ job' = [job EXCEPT ![w].pc = "returned"]
    /\ UNCHANGED <<opVars, syncVars, hosts, concurrency, bmc, ome, portal, alerts, jobs>>

\* admin.py 25-27: the operator clears is_active on the change form of the
\* Alert admin. The request record keeps the alert and, per worker, whether
\* a task was in flight at that moment
DeactivateAlert ==
    /\ ops < MaxOps
    /\ \E a \in DOMAIN alerts :
         /\ alerts[a].is_active
         /\ alerts' = [alerts EXCEPT ![a].is_active = FALSE]
         /\ op' = [kind |-> "deactivated", pk |-> a,
                   obj |-> [w \in Workers |-> job[w].kind # "none"]]
    /\ ops' = ops + 1
    /\ UNCHANGED <<syncVars, hosts, audit, concurrency, bmc, ome, portal, job, jobs,
                   flavors, caller, shist, costVars>>

(***************************************************************************)
(* sync_flavors (tasks.py 239-276).                                        *)
(***************************************************************************)
\* update_or_create(uuid=f.id, cluster=cluster, defaults=...) on a table
\* whose primary key is uuid: a row of that uuid and cluster is updated; with
\* no such row the INSERT is tried, and it raises IntegrityError when the
\* uuid is the key of a row of another cluster.
RECURSIVE UpsertFlavors(_, _, _, _)
UpsertFlavors(tbl, c, list, count) ==
    IF list = <<>> THEN [tbl |-> tbl, count |-> count, raised |-> FALSE]
    ELSE LET f == Head(list) IN
         IF f.id \in DOMAIN tbl /\ tbl[f.id].cluster # c
         THEN [tbl |-> tbl, count |-> count, raised |-> TRUE]
         ELSE UpsertFlavors(Put(tbl, f.id, [cluster |-> c, name |-> f.name, vcpus |-> f.vcpus]),
                            c, Tail(list), count + 1)

\* tasks.py 240-245: the task starts and loads the cluster rows
StartFlavors(w) ==
    /\ job[w].kind = "none"
    /\ jobs < MaxJobs
    /\ jobs' = jobs + 1
    /\ job' = [job EXCEPT ![w] = [IdleJob EXCEPT !.kind = "flavors", !.pc = "flavors", !.n = 1]]
    /\ UNCHANGED <<syncVars, hosts, audit, concurrency, bmc, ome, portal, alerts, flavors, op, ops, caller, shist, costVars>>

\* tasks.py 245-276: one cluster: connect, list the flavors, upsert each of
\* them, append the audit entry of the outcome
FlavorPass(w) ==
    /\ job[w].kind = "flavors" /\ job[w].pc = "flavors"
    /\ job[w].n <= Len(ClusterOrder)
    /\ LET c == ClusterOrder[job[w].n]
           r == Remote(c)
           u == UpsertFlavors(flavors, c, r.flavors, 0)
       IN IF r.fault \in {"connect", "endpoint"} \/ Fails(r, "flavors")
          THEN /\ audit' = AuditCreate(audit, [action |-> "Flavor Sync Failed", target |-> c,
                                               count |-> 0])
               /\ UNCHANGED flavors
          ELSE /\ flavors' = u.tbl
               /\ audit' = AuditCreate(audit,
                              [action |-> IF u.raised THEN "Flavor Sync Failed"
                                          ELSE "Flavor Sync Success",
                               target |-> c, count |-> IF u.raised THEN 0 ELSE u.count])
    /\ job' = [job EXCEPT ![w].n = @ + 1]
    /\ UNCHANGED <<syncVars, hosts, concurrency, bmc, ome, portal, alerts, jobs, op, ops, caller, shist, costVars>>

\* the loop over the clusters is through: the task returns
EndFlavors(w) ==
    /\ job[w].kind = "flavors" /\ job[w].pc = "flavors"
    /\ job[w].n > Len(ClusterOrder)
    /\ job' = [job EXCEPT ![w].pc = "returned"]
    /\ UNCHANGED <<opVars, syncVars, hosts, audit, concurrency, bmc, ome, portal, alerts, jobs>>

(***************************************************************************)
(* Operator requests: toggle_maintenance (views.py 445-458) and            *)
(* InventoryService.refresh_host (services/inventory_service.py 242-287).  *)
(***************************************************************************)
\* no request in flight; last holds what the last refresh_host call returned
\* and whether it created a connector client
IdleOp == [kind |-> "none", pk |-> 0, obj |-> <<>>, last |-> <<>>]

\* views.py 447: get_object_or_404(PhysicalHost, pk=host_id)
ToggleRead ==
    /\ op.kind = "none"
    /\ ops < MaxOps
    /\ \E pk \in DOMAIN hosts :
          op' = [kind |-> "toggle", pk |-> pk, obj |-> <<hosts[pk]>>]
    /\ ops' = ops + 1
    /\ UNCHANGED <<syncVars, hosts, audit, concurrency, bmc, ome, portal, alerts, job, jobs,
                   flavors, caller, shist, costVars>>

\* views.py 454-457: the flag is flipped on the object, host.save() writes
\* every field of the object, the audit entry is appended
ToggleSave ==
    /\ op.kind = "toggle"
    /\ hosts' = [hosts EXCEPT ![op.pk] = [op.obj[1] EXCEPT !.is_maintenance = ~@]]
    /\ audit' = AuditCreate(audit, [action |-> "Maintenance Toggle",
                                    target |-> op.obj[1].hostname, count |-> 0])
    /\ op' = IdleOp
    /\ UNCHANGED <<syncVars, concurrency, bmc, ome, portal, alerts, job, jobs, flavors, ops, caller, shist, costVars>>

\* Cluster.auth_url as the pieces a substring test can tell apart: a real
\* endpoint, and endpoints with "fake" in the host name or in the path
AuthUrls ==
    {<<"https://", "keystone", ".cloud", ":5000">>,
     <<"https://", "fake", ".cloud">>,
     <<"https://", "keystone", ".cloud", "/", "fake", "/v3">>}

\* a test that looks at the host name of the URL only
ContainsFakeInHost(url) == url[2] = "fake"

\* "fake" in url
ContainsFake(url) == \E n \in DOMAIN url : url[n] = "fake"

\* what refresh_host returned and whether OpenStackClient was instantiated
Returned(value, client) == [IdleOp EXCEPT !.last = <<[value |-> value, client |-> client]>>]

\* the caller of refresh_host holds a host object; the auth_url is that of
\* the host's cluster row
RefreshRead ==
    /\ op.kind = "none"
    /\ ops < MaxOps
    /\ \E pk \in DOMAIN hosts : \E url \in AuthUrls :
          op' = [kind |-> "refresh", pk |-> pk, obj |-> <<hosts[pk]>>, url |-> url]
    /\ ops' = ops + 1
    /\ UNCHANGED <<syncVars, hosts, audit, concurrency, bmc, ome, portal, alerts, job, jobs,
                   flavors, caller, shist, costVars>>

\* get_hypervisor_by_name: the first hypervisor of that name, <<>> for None
RECURSIVE HypervisorByName(_, _)
HypervisorByName(hyps, name) ==
    IF hyps = <<>> THEN <<>>
    ELSE IF Head(hyps).name = name THEN <<Head(hyps)>>
    ELSE HypervisorByName(Tail(hyps), name)

\* get_instances(host_name=...): the servers whose compute host is the host
RECURSIVE InstancesOfHost(_, _)
InstancesOfHost(servers, name) ==
    IF servers = <<>> THEN <<>>
    ELSE (IF Head(servers).compute_host = name THEN <<Head(servers)>> ELSE <<>>)
         \o InstancesOfHost(Tail(servers), name)

\* inventory_service.py 271-281: update_or_create of the host's servers
\* with the defaults host and name
RECURSIVE RefreshInstances(_, _, _)
RefreshInstances(tbl, list, pk) ==
    IF list = <<>> THEN tbl
    ELSE LET srv == Head(list)
             row == IF srv.id \in DOMAIN tbl
                    THEN [tbl[srv.id] EXCEPT !.host = pk, !.name = srv.name,
                                             !.flavor_name = srv.flavor,
                                             !.project_id = srv.project_id]
                    ELSE NewInstanceRow([host |-> pk, name |-> srv.name,
                                         launched_at |-> NoTime,
                                         flavor_name |-> srv.flavor,
                                         project_id |-> srv.project_id,
                                         ip_address |-> NoNetwork.ip_address,
                                         network_name |-> NoNetwork.network_name])
         IN RefreshInstances(Put(tbl, srv.id, row), Tail(list), pk)

\* inventory_service.py 250-287: the fake test; then connect, fetch the
\* hypervisor, set the fields on the object, host.save(), upsert the
\* instances; an exception is logged and the call returns False
RefreshSave ==
    /\ op.kind = "refresh"
    /\ LET host == op.obj[1]
           r    == Remote(host.cluster)
           hyp  == HypervisorByName(r.hyps, host.hostname)
       IN IF ContainsFake(op.url)
          THEN /\ op' = Returned(FALSE, FALSE)
               /\ UNCHANGED <<hosts, instances>>
          ELSE IF r.fault \in {"connect", "endpoint"} \/ Fails(r, "hypervisors") \/ hyp = <<>>
          THEN /\ op' = Returned(FALSE, TRUE)
               /\ UNCHANGED <<hosts, instances>>
          ELSE /\ hosts' = [hosts EXCEPT ![op.pk] =
                               [host EXCEPT !.cpu_count = hyp[1].vcpus,
                                            !.state = hyp[1].state]]
               /\ IF CallWithRetry(Answers(r, "servers")).error # "none"
                  THEN /\ op' = Returned(FALSE, TRUE)
                       /\ UNCHANGED instances
                  ELSE /\ op' = Returned(TRUE, TRUE)
                       /\ instances' = RefreshInstances(instances,
                                          InstancesOfHost(r.servers, host.hostname), op.pk)
    /\ UNCHANGED <<remote, run, runs, hist, status, services, volumes, audit, concurrency,
                   bmc, ome, portal, alerts, job, jobs, flavors, ops, caller, shist, costVars>>

(***************************************************************************)
(* The instance page with ?refresh (views.py 329-392): the operator's      *)
(* explicit refresh of one instance.                                       *)
(***************************************************************************)
\* what get_realtime_stats may return: None, or the diagnostics with the
\* memory in kB and the CPU utilisation
NoStats == <<>>

Diagnostics == [memory |-> 524288, cpu_util |-> 42]

\* compute.get_server(uuid): the server of that id, <<>> when there is
\* none (the SDK then raises)
RECURSIVE ServerById(_, _)
ServerById(servers, id) ==
    IF servers = <<>> THEN <<>>
    ELSE IF Head(servers).id = id THEN <<Head(servers)>>
    ELSE ServerById(Tail(servers), id)

\* views.py 353-355, 362-372: the fields taken from the server; the address
\* and the network are those of the first IPv4 entry and stay as they are
\* without one; launched_at is parsed when the server carries one
WithServer(obj, srv) ==
    LET net == ExtractNetwork(srv)
        p   == ParseDatetime(srv.launched_at)
    IN [obj EXCEPT !.name = srv.name,
                   !.launched_at = IF srv.launched_at.form = "none" THEN @ ELSE p.value,
                   !.ip_address = IF net.ip_address # NoAddr THEN net.ip_address ELSE @,
                   !.network_name = IF net.ip_address # NoAddr THEN net.network_name ELSE @]

\* views.py 378-384: the usage fields taken from the diagnostics
WithStats(obj, stats) ==
    IF stats = NoStats THEN obj
    ELSE [obj EXCEPT !.last_ram_usage_mb = stats[1].memory \div 1024,
                     !.last_cpu_usage_pct = stats[1].cpu_util]

\* views.py 331-340: get_object_or_404(Instance, pk=...), the early return
\* for an instance without host, then the settings are fetched
DetailsRead ==
    /\ op.kind = "none"
    /\ ops < MaxOps
    /\ \E i \in DOMAIN instances :
          /\ instances[i].host # 0
          /\ op' = [kind |-> "details", pk |-> i, obj |-> <<instances[i]>>]
    /\ ops' = ops + 1
    /\ portal' = GetSettings(portal)
    /\ UNCHANGED <<syncVars, hosts, audit, concurrency, bmc, ome, alerts, job, jobs,
                   flavors, caller, shist, costVars>>

\* views.py 350-390: connect, fetch the server, set its fields on the
\* object and save it, fetch the diagnostics, set the usage fields and save
\* again; every save writes the whole object, an exception ends the refresh
DetailsSave ==
    /\ op.kind = "details"
    /\ \E stats \in {NoStats, <<Diagnostics>>} :
          LET obj == op.obj[1]
              r   == Remote(hosts[obj.host].cluster)
              srv == ServerById(r.servers, op.pk)
          IN instances' =
                IF \/ r.fault \in {"connect", "endpoint"}
                   \/ CallWithRetry(Answers(r, "servers")).error # "none"
                   \/ srv = <<>>
                   \/ (srv[1].launched_at.form # "none" /\ ParseDatetime(srv[1].launched_at).raised)
                THEN instances
                ELSE [instances EXCEPT ![op.pk] = WithStats(WithServer(obj, srv[1]), stats)]
    /\ op' = IdleOp
    /\ UNCHANGED <<remote, run, runs, hist, status, services, volumes, hosts, audit,
                   concurrency, bmc, ome, portal, alerts, job, jobs, flavors, ops, caller,
                   shist, costVars>>

(***************************************************************************)
(* The cost service (services/cost_service.py).  It computes in Python    *)
(* floats, which are IEEE 754 doubles: a double is held here as an exact  *)
(* 53-bit mantissa and an exponent, and every operation rounds to the      *)
(* nearest double as the hardware does.  A float that round(x, 2) returned *)
(* is named by its whole number of cents.  The exact fractions serve to    *)
(* state what the arithmetic yields without any rounding.                  *)
(***************************************************************************)
RECURSIVE GCD(_, _)
GCD(a, b) == IF b = 0 THEN a ELSE GCD(b, a % b)

\* the fraction n/d in lowest terms (n >= 0, d > 0)
Frac(n, d) == LET g == GCD(n, d) IN [num |-> n \div g, den |-> d \div g]

FracAdd(x, y) ==
    LET l == (x.den \div GCD(x.den, y.den)) * y.den
    IN Frac(x.num * (l \div x.den) + y.num * (l \div y.den), l)

\* x * k and x / k for a natural number k (k > 0 for the division)
FracTimes(x, k) ==
    LET g == GCD(k, x.den) IN Frac(x.num * (k \div g), x.den \div g)

FracOver(x, k) ==
    LET g == GCD(x.num, k) IN
    IF x.num = 0 THEN Frac(0, 1) ELSE Frac(x.num \div g, x.den * (k \div g))

\* the nearest whole number of cents to an exact fraction of cents, a tie
\* going to the even one
Round2(x) ==
    LET q == x.num \div x.den
        r == x.num % x.den
    IN IF 2 * r < x.den THEN q
       ELSE IF 2 * r > x.den THEN q + 1
       ELSE IF q % 2 = 0 THEN q ELSE q + 1

\* the base of the digits a mantissa is held in, and its binary digits
Limb == 2^15

LimbBits == 15

\* the natural number n as its digits in base Limb, lowest first
RECURSIVE BigOf(_)
BigOf(n) == IF n = 0 THEN <<>> ELSE <<n % Limb>> \o BigOf(n \div Limb)

\* the natural number of the digits X
RECURSIVE BigToNat(_)
BigToNat(X) == IF X = <<>> THEN 0 ELSE Head(X) + Limb * BigToNat(Tail(X))

\* X + c for a small natural c
RECURSIVE BigPlus(_, _)
BigPlus(X, c) ==
    IF c = 0 THEN X
    ELSE IF X = <<>> THEN BigOf(c)
    ELSE LET t == Head(X) + c IN <<t % Limb>> \o BigPlus(Tail(X), t \div Limb)

\* X + Y + c
RECURSIVE BigAddC(_, _, _)
BigAddC(X, Y, c) ==
    IF X = <<>> THEN BigPlus(Y, c)
    ELSE IF Y = <<>> THEN BigPlus(X, c)
    ELSE LET t == Head(X) + Head(Y) + c
         IN <<t % Limb>> \o BigAddC(Tail(X), Tail(Y), t \div Limb)

BigAdd(X, Y) == BigAddC(X, Y, 0)

\* X * k + carry for a small natural k
RECURSIVE BigTimesC(_, _, _)
BigTimesC(X, k, carry) ==
    IF X = <<>> THEN BigOf(carry)
    ELSE LET t == Head(X) * k + carry
         IN <<t % Limb>> \o BigTimesC(Tail(X), k, t \div Limb)

BigTimes(X, k) == IF k = 0 THEN <<>> ELSE BigTimesC(X, k, 0)

\* X * Limb^n
RECURSIVE BigUp(_, _)
BigUp(X, n) == IF X = <<>> \/ n = 0 THEN X ELSE BigUp(<<0>> \o X, n - 1)

\* X * 2^t
RECURSIVE BigShiftLeft(_, _)
BigShiftLeft(X, t) ==
    IF t >= LimbBits THEN BigShiftLeft(BigUp(X, 1), t - LimbBits) ELSE BigTimes(X, 2^t)

\* X * Y
RECURSIVE BigMul(_, _)
BigMul(X, Y) ==
    IF Y = <<>> THEN <<>>
    ELSE BigAdd(BigTimes(X, Head(Y)), BigUp(BigMul(X, Tail(Y)), 1))

\* quotient q and remainder r of X by a small positive d
RECURSIVE BigDivMod(_, _)
BigDivMod(X, d) ==
    IF X = <<>> THEN [q |-> <<>>, r |-> 0]
    ELSE LET hi == BigDivMod(Tail(X), d)
             t  == hi.r * Limb + Head(X)
         IN [q |-> IF hi.q = <<>> /\ t \div d = 0 THEN <<>> ELSE <<t \div d>> \o hi.q,
             r |-> t % d]

\* X < Y for digits of equal length, from the highest digit down
RECURSIVE BigLessFrom(_, _, _)
BigLessFrom(X, Y, n) ==
    IF n = 0 THEN FALSE
    ELSE IF X[n] # Y[n] THEN X[n] < Y[n]
    ELSE BigLessFrom(X, Y, n - 1)

BigLess(X, Y) == IF Len(X) # Len(Y) THEN Len(X) < Len(Y) ELSE BigLessFrom(X, Y, Len(X))

\* the number of binary digits of a natural number
RECURSIVE Bits(_)
Bits(n) == IF n = 0 THEN 0 ELSE 1 + Bits(n \div 2)

BigBits(X) == IF X = <<>> THEN 0 ELSE LimbBits * (Len(X) - 1) + Bits(X[Len(X)])

\* the binary digits of a double's mantissa
MantBits == 53

\* X without its s lowest binary digits; g is the highest digit dropped,
\* st says whether anything below it was not zero
RECURSIVE ShiftRight(_, _, _, _)
ShiftRight(X, s, g, st) ==
    IF s = 0 THEN [x |-> X, g |-> g, st |-> st]
    ELSE IF s >= LimbBits
    THEN LET low == IF X = <<>> THEN 0 ELSE Head(X)
         IN ShiftRight(IF X = <<>> THEN X ELSE Tail(X), s - LimbBits,
                       low >= Limb \div 2, st \/ g \/ low % (Limb \div 2) # 0)
    ELSE LET h == BigDivMod(X, 2^s)
         IN [x |-> h.q, g |-> h.r >= 2^(s - 1), st |-> st \/ g \/ h.r % 2^(s - 1) # 0]

\* the nearest whole number to a shifted value, a tie going to the even one
RoundHalfEven(sh) ==
    IF sh.g /\ (sh.st \/ (sh.x # <<>> /\ sh.x[1] % 2 = 1)) THEN BigPlus(sh.x, 1) ELSE sh.x

\* the double m * 2^e nearest to X * 2^e plus, when inexact, a positive
\* part below the last digit of X (X then has more than MantBits digits)
RoundDouble(X, e, inexact) ==
    LET s == BigBits(X) - MantBits
        m == RoundHalfEven(ShiftRight(X, s, FALSE, inexact))
    IN IF s <= 0 THEN [m |-> BigShiftLeft(X, 0 - s), e |-> e + s]
       ELSE IF BigBits(m) > MantBits THEN [m |-> BigDivMod(m, 2).q, e |-> e + s + 1]
       ELSE [m |-> m, e |-> e + s]

\* the double 0.0
Zero == [m |-> <<>>, e |-> 0]

\* the double nearest to n / d: the true division of two integers and the
\* float of a Decimal
FromRatio(n, d) ==
    IF n = 0 THEN Zero
    ELSE LET q == BigDivMod(BigUp(BigOf(n), 5), d)
         IN RoundDouble(q.q, 0 - 5 * LimbBits, q.r # 0)

\* the float round(x, 2) returns for an amount of so many cents: the double
\* nearest to cents / 100
Double(cents) == FromRatio(cents, 100)

\* the float product x * k for a small positive integer k
DoubleTimes(x, k) ==
    IF x = Zero THEN Zero ELSE RoundDouble(BigTimes(x.m, k * 4), x.e - 2, FALSE)

\* the float product x * y
DoubleMul(x, y) ==
    IF x = Zero \/ y = Zero THEN Zero ELSE RoundDouble(BigMul(x.m, y.m), x.e + y.e, FALSE)

\* the float sum x + y
DoubleAdd(x, y) ==
    IF x = Zero THEN y
    ELSE IF y = Zero THEN x
    ELSE LET lo == IF x.e < y.e THEN x.e ELSE y.e
         IN RoundDouble(BigAdd(BigShiftLeft(x.m, x.e - lo), BigShiftLeft(y.m, y.e - lo)),
                        lo, FALSE)

\* the float quotient x / n for a small positive integer n
DoubleOver(x, n) ==
    IF x = Zero THEN Zero
    ELSE LET q == BigDivMod(BigUp(x.m, 2), n)
         IN RoundDouble(q.q, x.e - 2 * LimbBits, q.r # 0)

\* x < y
DoubleLess(x, y) ==
    IF y = Zero THEN FALSE
    ELSE IF x = Zero THEN TRUE
    ELSE IF x.e # y.e THEN x.e < y.e
    ELSE BigLess(x.m, y.m)

\* round(x, 2) in cents: the whole number nearest to x * 100, which Python
\* finds from the exact value of the double, a tie going to the even one
Cents(x) ==
    IF x = Zero THEN 0
    ELSE BigToNat(RoundHalfEven(ShiftRight(BigTimes(x.m, 100), 0 - x.e, FALSE, FALSE)))

\* a ServerCostProfile row (models.py 40-44): watts and cents
Profile(watts, amortization) ==
    [average_watts |-> watts, monthly_amortization |-> amortization]

\* cost_service.py 45-49: (watts / 1000) * 24 * 30 * float(electricity_cost)
\* * float(pue), evaluated from the left
PowerCost(profile, st) ==
    DoubleMul(DoubleMul(DoubleTimes(DoubleTimes(FromRatio(profile.average_watts, 1000), 24), 30),
                        FromRatio(st.electricity_cost, 100)),
              FromRatio(st.pue, 100))

\* cost_service.py 52: float(monthly_amortization) + power_cost
HostTotalCost(profile, st) ==
    DoubleAdd(Double(profile.monthly_amortization), PowerCost(profile, st))

\* the power cost without any rounding, in cents:
\* watts * 720 * (e / 100) * (p / 100) / 1000 * 100
ExactPowerCost(profile, st) ==
    Frac(9 * profile.average_watts * st.electricity_cost * st.pue, 1250)

\* amortization plus power cost without any rounding, in cents
ExactHostTotalCost(profile, st) ==
    FracAdd(Frac(profile.monthly_amortization, 1), ExactPowerCost(profile, st))

\* the order of the Flavor primary keys
FlavorOrder == <<"f1", "f2", "f3", "f4">>

\* a flavor lookup by name alone
FlavorMatchesByName(tbl, name, c) ==
    {n \in DOMAIN FlavorOrder :
        FlavorOrder[n] \in DOMAIN tbl /\ tbl[FlavorOrder[n]].name = name}

\* Flavor.objects.filter(name=..., cluster=...): positions in key order
FlavorMatches(tbl, name, c) ==
    {n \in DOMAIN FlavorOrder :
        /\ FlavorOrder[n] \in DOMAIN tbl
        /\ tbl[FlavorOrder[n]].name = name
        /\ tbl[FlavorOrder[n]].cluster = c}

\* cost_service.py 65-74: _get_instance_vcpus; .first() is the match of the
\* lowest key, 1 without a match
InstanceVcpus(db, inst, c) ==
    LET found == FlavorMatches(db.flavors, inst.flavor_name, c) IN
    IF found = {} THEN 1
    ELSE db.flavors[FlavorOrder[CHOOSE n \in found : \A k \in found : n <= k]].vcpus

\* a return value of None
None == <<>>

\* a guard that also gives up on a host without CPUs
CannotCostOrNoCpu(db, inst) ==
    \/ inst.host = 0
    \/ db.hosts[inst.host].server_model = <<>>
    \/ db.hosts[inst.host].cpu_count = 0

\* cost_service.py 35-36: the instance has no host or the host no profile
CannotCost(db, inst) ==
    \/ inst.host = 0
    \/ db.hosts[inst.host].server_model = <<>>

\* cost_service.py 57-62: the float product cost_per_vcpu * vcpus
RawInstanceCost(db, inst, st) ==
    LET host == db.hosts[inst.host]
    IN DoubleTimes(DoubleOver(HostTotalCost(db.profiles[host.server_model[1]], st),
                              host.cpu_count),
                   InstanceVcpus(db, inst, host.cluster))

\* the same product without any rounding, in cents
ExactInstanceCost(db, inst, st) ==
    LET host == db.hosts[inst.host]
    IN FracTimes(FracOver(ExactHostTotalCost(db.profiles[host.server_model[1]], st),
                          host.cpu_count),
                 InstanceVcpus(db, inst, host.cluster))

\* cost_service.py 35-62: calculate_instance_cost, None or <<cents>>
InstanceCost(db, inst, st) ==
    IF CannotCost(db, inst) THEN None
    ELSE IF db.hosts[inst.host].cpu_count = 0 THEN <<0>>
    ELSE <<Cents(RawInstanceCost(db, inst, st))>>

\* cost_service.py 96, 170: cost or 0.0, in cents
OrZero(cost) == IF cost = None THEN 0 ELSE cost[1]

\* the order in which a query yields the Instance rows: by primary key
InstanceOrder == <<"i1", "i2", "i3">>

\* Instance.objects.all() as a list of rows
AllInstances(tbl) ==
    SelectSeq([n \in DOMAIN InstanceOrder |->
                  IF InstanceOrder[n] \in DOMAIN tbl THEN <<tbl[InstanceOrder[n]]>> ELSE <<>>],
              LAMBDA r : r # <<>>)

\* cost_service.py 99-108: the entry of the project is created when first
\* met, then counted and summed into; cost is a float
AddToProject(list, pid, cost) ==
    IF \E n \in DOMAIN list : list[n].id = pid
    THEN [n \in DOMAIN list |->
             IF list[n].id = pid
             THEN [list[n] EXCEPT !.instance_count = @ + 1,
                                  !.total_cost = DoubleAdd(@, cost)]
             ELSE list[n]]
    ELSE Append(list, [id |-> pid, instance_count |-> 1,
                       total_cost |-> DoubleAdd(Zero, cost), vcpus |-> 0])

\* cost_service.py 95-109: the loop over the instances
RECURSIVE GroupByProject(_, _, _, _)
GroupByProject(db, rows, st, acc) ==
    IF rows = <<>> THEN acc
    ELSE LET cost == Double(OrZero(InstanceCost(db, Head(rows)[1], st)))
         IN GroupByProject(db, Tail(rows), st,
                           [projects |-> AddToProject(acc.projects, Head(rows)[1].project_id, cost),
                            total    |-> DoubleAdd(acc.total, cost)])

\* one step of a stable sort by total_cost, largest first
InsertByCost(sorted, e) ==
    LET before == {n \in DOMAIN sorted : ~DoubleLess(sorted[n].total_cost, e.total_cost)}
        k      == Cardinality(before)
    IN SubSeq(sorted, 1, k) \o <<e>> \o SubSeq(sorted, k + 1, Len(sorted))

\* cost_service.py 111-115: sorted(..., key=total_cost, reverse=True)
RECURSIVE SortByCost(_, _)
SortByCost(list, sorted) ==
    IF list = <<>> THEN sorted
    ELSE SortByCost(Tail(list), InsertByCost(sorted, Head(list)))

\* cost_service.py 77-121: calculate_project_costs
ProjectCosts(db, st) ==
    LET g == GroupByProject(db, AllInstances(db.instances), st,
                            [projects |-> <<>>, total |-> Zero])
    IN [kind |-> "projects",
        projects |-> SortByCost(g.projects, <<>>),
        total_monthly |-> Cents(g.total),
        projected_yearly |-> Cents(DoubleTimes(g.total, 12))]

\* a filter that lets the instances without host through
InstancesOfClusterOrNone(db, c) ==
    SelectSeq(AllInstances(db.instances),
              LAMBDA r : r[1].host = 0 \/ db.hosts[r[1].host].cluster = c)

\* cost_service.py 162-164: Instance.objects.filter(host__cluster=cluster)
InstancesOfCluster(db, c) ==
    SelectSeq(AllInstances(db.instances),
              LAMBDA r : r[1].host # 0 /\ db.hosts[r[1].host].cluster = c)

\* cost_service.py 166-172: the loop over the cluster's instances
RECURSIVE SumCosts(_, _, _, _)
SumCosts(db, rows, st, total) ==
    IF rows = <<>> THEN total
    ELSE SumCosts(db, Tail(rows), st,
                  DoubleAdd(total, Double(OrZero(InstanceCost(db, Head(rows)[1], st)))))

\* cost_service.py 152-179: calculate_cluster_cost
ClusterCost(db, c, st) ==
    LET rows  == InstancesOfCluster(db, c)
        total == SumCosts(db, rows, st, Zero)
    IN [kind |-> "cluster", cluster |-> c,
        total_monthly |-> Cents(total),
        host_count |-> Cardinality({p \in DOMAIN db.hosts : db.hosts[p].cluster = c}),
        instance_count |-> Len(rows),
        avg_per_instance |-> IF Len(rows) > 0 THEN Cents(DoubleOver(total, Len(rows))) ELSE 0]

\* the tables the cost service reads
Db == [hosts |-> hosts, instances |-> instances, flavors |-> flavors, profiles |-> profiles]

NoReport == [kind |-> "none"]

\* calculate_instance_cost(instance) without a settings object: the
\* settings are fetched (and created when missing) once the guard of line
\* 35 is passed
CostInstance(i) ==
    /\ i \in DOMAIN instances
    /\ portal' = IF CannotCost(Db, instances[i]) THEN portal ELSE GetSettings(portal)
    /\ report' = [kind |-> "instance", instance |-> i,
                  cost |-> InstanceCost(Db, instances[i], SettingsObject(GetSettings(portal)))]
    /\ UNCHANGED <<syncVars, hosts, audit, concurrency, bmc, ome, alerts, job, jobs,
                   flavors, op, ops, caller, shist, profiles>>

\* calculate_project_costs()
CostProjects ==
    /\ portal' = GetSettings(portal)
    /\ report' = ProjectCosts(Db, SettingsObject(portal'))
    /\ UNCHANGED <<syncVars, hosts, audit, concurrency, bmc, ome, alerts, job, jobs,
                   flavors, op, ops, caller, shist, profiles>>

\* calculate_cluster_cost(cluster)
CostCluster(c) ==
    /\ portal' = GetSettings(portal)
    /\ report' = ClusterCost(Db, c, SettingsObject(portal'))
    /\ UNCHANGED <<syncVars, hosts, audit, concurrency, bmc, ome, alerts, job, jobs,
                   flavors, op, ops, caller, shist, profiles>>

EmptyRows == [hosts |-> <<>>, services |-> <<>>, instances |-> EmptyMap, volumes |-> EmptyMap]

InitStore ==
    /\ status = [c \in Clusters |-> "unknown"]
    /\ hosts = <<>>
    /\ services = <<>>
    /\ instances = EmptyMap
    /\ volumes = EmptyMap
    /\ audit = <<>>
    /\ run = [w \in Workers |-> IdleRun]
    /\ runs = 0
    /\ hist = [snap |-> EmptyRows, ended |-> 0, stable |-> FALSE,
               mark |-> [w \in Workers |-> 0],
               pass |-> [w \in Workers |-> [c \in Clusters |-> NoPass]]]
    /\ alerts = <<>>
    /\ job = [w \in Workers |-> IdleJob]
    /\ jobs = 0
    /\ flavors = EmptyMap
    /\ op = IdleOp
    /\ ops = 0
    /\ caller = [u \in Callers |-> IdleCaller]
    /\ shist = NoSettingsHistory
    /\ profiles = EmptyMap
    /\ report = NoReport

\* one worker: runs follow one another
\* no hardware job is scheduled
NoHardware ==
    /\ bmc = [a \in BmcAddresses |-> "healthy"]
    /\ ome = "base"
    /\ portal = <<>>

Init ==
    /\ InitStore
    /\ NoHardware
    /\ concurrency = 1
    /\ remote \in [Clusters -> RemoteStates("A") \cup RemoteStates("B")]
    /\ \A c \in Clusters : remote[c] \in RemoteStates(c)

Next ==
    \/ \E w \in Active : StartRun(w)
    \/ \E w \in Active : BeginPass(w)
    \/ \E w \in Active : SyncService(w)
    \/ \E w \in Active : CreateService(w)
    \/ \E w \in Active : BuildMaps(w)
    \/ \E w \in Active : SyncHost(w)
    \/ \E w \in Active : CreateHost(w)
    \/ \E w \in Active : SyncInstance(w)
    \/ \E w \in Active : FinishPass(w)
    \/ \E w \in Active : FailPass(w)
    \/ \E w \in Active : EndRun(w)
    \/ RemoteChange

Spec == Init /\ [][Next]_vars

\* two workers: a second run may start while the first is in flight
InitConc ==
    /\ InitStore
    /\ NoHardware
    /\ concurrency = 2
    /\ remote = [c \in Clusters |-> "base"]

SpecConc == InitConc /\ [][Next]_vars

\* the steps of the task in worker w, from its first pass to its return
RunStep(w) ==
    \/ BeginPass(w)
    \/ SyncService(w)
    \/ CreateService(w)
    \/ BuildMaps(w)
    \/ SyncHost(w)
    \/ CreateHost(w)
    \/ SyncInstance(w)
    \/ FinishPass(w)
    \/ FailPass(w)
    \/ EndRun(w)

NextLive ==
    \/ \E w \in Active : StartRun(w)
    \/ \E w \in Active : BeginPass(w)
    \/ \E w \in Active : SyncService(w)
    \/ \E w \in Active : CreateService(w)
    \/ \E w \in Active : BuildMaps(w)
    \/ \E w \in Active : SyncHost(w)
    \/ \E w \in Active : CreateHost(w)
    \/ \E w \in Active : SyncInstance(w)
    \/ \E w \in Active : FinishPass(w)
    \/ \E w \in Active : FailPass(w)
    \/ \E w \in Active : EndRun(w)

\* runs on every remote state of the clusters; a worker that has started
\* the task keeps executing it: every remote call answers or raises
SpecLive == Init /\ [][NextLive]_vars /\ \A w \in Workers : WF_vars(RunStep(w))

\* the host rows a run of sync_inventory leaves when cluster A reports two
\* bare-metal nodes
SyncedHosts ==
    <<NewHostRow("A", "h1", [cpu_count |-> 32, state |-> "up", idrac_ip |-> BmcAddr1]),
      NewHostRow("A", "h2", [cpu_count |-> 0, state |-> "up", idrac_ip |-> BmcAddr2]),
      NewHostRow("B", "h1", [cpu_count |-> 4, state |-> "up", idrac_ip |-> NoAddr])>>

\* the hardware jobs on a synced inventory, with one or two workers
InitHealth ==
    /\ status = [c \in Clusters |-> "online"]
    /\ hosts = SyncedHosts
    /\ services = <<>>
    /\ instances = EmptyMap
    /\ volumes = EmptyMap
    /\ audit = <<>>
    /\ run = [w \in Workers |-> IdleRun]
    /\ runs = 0
    /\ hist = [snap |-> EmptyRows, ended |-> 0, stable |-> FALSE,
               mark |-> [w \in Workers |-> 0],
               pass |-> [w \in Workers |-> [c \in Clusters |-> NoPass]]]
    /\ alerts = <<>>
    /\ job = [w \in Workers |-> IdleJob]
    /\ jobs = 0
    /\ flavors = EmptyMap
    /\ op = IdleOp
    /\ ops = 0
    /\ caller = [u \in Callers |-> IdleCaller]
    /\ shist = NoSettingsHistory
    /\ profiles = EmptyMap
    /\ report = NoReport
    /\ concurrency \in {1, 2}
    /\ remote = [c \in Clusters |-> "base"]
    /\ bmc \in [BmcAddresses -> DOMAIN Endpoints]
    /\ ome \in DOMAIN OmeAnswers
    /\ portal \in {<<>>, <<ConfiguredSettings>>}

NextHealth ==
    \/ \E w \in Active : StartPoll(w)
    \/ \E w \in Active : PollHost(w)
    \/ \E w \in Active : CreateHealthAlert(w)
    \/ \E w \in Active : Logout(w)
    \/ \E w \in Active : EndPoll(w)
    \/ \E w \in Active : StartOme(w)
    \/ \E w \in Active : OmeDevice(w)
    \/ \E w \in Active : OmeSave(w)
    \/ \E w \in Active : OmeDevicesDone(w)
    \/ \E w \in Active : OmeFetchAlerts(w)
    \/ \E w \in Active : OmeAlert(w)
    \/ \E w \in Active : OmeCreateAlert(w)
    \/ \E w \in Active : OmeDone(w)
    \/ \E w \in Active : OmeFail(w)
    \/ \E w \in Active : EndJob(w)

SpecHealth == InitHealth /\ [][NextHealth]_vars

\* the hardware jobs next to an operator who deactivates alerts in the admin
InitAlerts ==
    /\ status = [c \in Clusters |-> "online"]
    /\ hosts = SyncedHosts
    /\ services = <<>>
    /\ instances = EmptyMap
    /\ volumes = EmptyMap
    /\ audit = <<>>
    /\ run = [w \in Workers |-> IdleRun]
    /\ runs = 0
    /\ hist = [snap |-> EmptyRows, ended |-> 0, stable |-> FALSE,
               mark |-> [w \in Workers |-> 0],
               pass |-> [w \in Workers |-> [c \in Clusters |-> NoPass]]]
    /\ alerts = <<>>
    /\ job = [w \in Workers |-> IdleJob]
    /\ jobs = 0
    /\ flavors = EmptyMap
    /\ op = IdleOp
    /\ ops = MaxOps - 1
    /\ caller = [u \in Callers |-> IdleCaller]
    /\ shist = NoSettingsHistory
    /\ profiles = EmptyMap
    /\ report = NoReport
    /\ concurrency \in {1, 2}
    /\ remote = [c \in Clusters |-> "base"]
    /\ bmc \in [BmcAddresses -> {"healthy", "warning", "critical_alt", "logout_raises"}]
    /\ ome \in {"base", "devices_500", "alerts_raise"}
    /\ portal = <<ConfiguredSettings>>

NextAlerts ==
    \/ NextHealth
    \/ DeactivateAlert

SpecAlerts == InitAlerts /\ [][NextAlerts]_vars

\* the reconciliation run, the hardware and flavor jobs and the operator
\* side by side on a synced inventory whose cluster A has lost its bulk
\* statistics; the runs, jobs and requests that led there count as made, so
\* that one more of each kind is started
InitMixed ==
    /\ status = [c \in Clusters |-> "online"]
    /\ hosts = SyncedHosts
    /\ services = <<>>
    /\ instances = EmptyMap
    /\ volumes = EmptyMap
    /\ audit = <<>>
    /\ run = [w \in Workers |-> IdleRun]
    /\ runs = MaxRuns - 1
    /\ hist = [snap |-> EmptyRows, ended |-> 0, stable |-> FALSE,
               mark |-> [w \in Workers |-> 0],
               pass |-> [w \in Workers |-> [c \in Clusters |-> NoPass]]]
    /\ alerts = <<>>
    /\ job = [w \in Workers |-> IdleJob]
    /\ jobs = MaxJobs - 1
    /\ flavors = EmptyMap
    /\ op = IdleOp
    /\ ops = MaxOps - 1
    /\ caller = [u \in Callers |-> IdleCaller]
    /\ shist = NoSettingsHistory
    /\ profiles = EmptyMap
    /\ report = NoReport
    /\ concurrency = 1
    /\ remote = [c \in Clusters |-> IF c = "A" THEN "no_stats" ELSE "base"]
    /\ bmc = [a \in BmcAddresses |-> IF a = BmcAddr1 THEN "warning" ELSE "healthy"]
    /\ ome = "base"
    /\ portal = <<ConfiguredSettings>>

NextMixed ==
    \/ \E w \in Active : StartRun(w)
    \/ \E w \in Active : BeginPass(w)
    \/ \E w \in Active : SyncService(w)
    \/ \E w \in Active : CreateService(w)
    \/ \E w \in Active : BuildMaps(w)
    \/ \E w \in Active : SyncHost(w)
    \/ \E w \in Active : SyncInstance(w)
    \/ \E w \in Active : FinishPass(w)
    \/ \E w \in Active : EndRun(w)
    \/ \E w \in Active : StartPoll(w)
    \/ \E w \in Active : PollHost(w)
    \/ \E w \in Active : CreateHealthAlert(w)
    \/ \E w \in Active : Logout(w)
    \/ \E w \in Active : EndPoll(w)
    \/ \E w \in Active : StartOme(w)
    \/ \E w \in Active : OmeDevice(w)
    \/ \E w \in Active : OmeSave(w)
    \/ \E w \in Active : OmeDevicesDone(w)
    \/ \E w \in Active : OmeFetchAlerts(w)
    \/ \E w \in Active : OmeAlert(w)
    \/ \E w \in Active : OmeCreateAlert(w)
    \/ \E w \in Active : OmeDone(w)
    \/ \E w \in Active : StartFlavors(w)
    \/ \E w \in Active : FlavorPass(w)
    \/ \E w \in Active : EndFlavors(w)
    \/ \E w \in Active : EndJob(w)
    \/ ToggleRead
    \/ ToggleSave
    \/ RefreshRead
    \/ RefreshSave

SpecMixed == InitMixed /\ [][NextMixed]_vars

\* the callers of the settings singleton on a fresh installation
InitSettings ==
    /\ InitStore
    /\ NoHardware
    /\ concurrency = 1
    /\ remote = [c \in Clusters |-> "base"]

NextSettings ==
    \/ \E u \in Callers : SettingsLookup(u)
    \/ \E u \in Callers : SettingsCreate(u)
    \/ \E u \in Callers : SettingsEdit(u)
    \/ \E u \in Callers : SettingsSave(u)
    \/ \E u \in Callers : SettingsDone(u)

SpecSettings == InitSettings /\ [][NextSettings]_vars

\* the cost profiles an administrator has entered
CostProfiles == [r740 |-> Profile(400, 20000), r640 |-> Profile(300, 0)]

\* the flavors a flavor sync has stored: the same name in both clusters
CostFlavors ==
    [f1 |-> [cluster |-> "A", name |-> "m1.small", vcpus |-> 2],
     f2 |-> [cluster |-> "A", name |-> "m1.large", vcpus |-> 4],
     f3 |-> [cluster |-> "B", name |-> "m1.small", vcpus |-> 1],
     f4 |-> [cluster |-> "B", name |-> "m1.xlarge", vcpus |-> 8]]

\* synced hosts with the profile an administrator gave them
CostHosts(cpu1, m1, m2) ==
    <<[SyncedHosts[1] EXCEPT !.cpu_count = cpu1, !.server_model = m1],
      [SyncedHosts[2] EXCEPT !.server_model = m2],
      [SyncedHosts[3] EXCEPT !.server_model = <<"r640">>]>>

\* a stored instance
CostInstanceRow(name, host, flavor, project) ==
    NewInstanceRow([host |-> host, name |-> name, launched_at |-> NoTime,
                    flavor_name |-> flavor, project_id |-> project,
                    ip_address |-> NoAddr, network_name |-> "provider-net"])

\* the settings rows the cost service may meet
CostSettings ==
    {<<>>, <<DefaultSettings>>,
     <<[DefaultSettings EXCEPT !.electricity_cost = 25, !.pue = 120]>>}

\* the cost service on a synced inventory: hosts with and without profile
\* and CPUs, instances with and without host, with a flavor of their own
\* cluster, of the other cluster only, or of none
InitCost ==
    /\ status = [c \in Clusters |-> "online"]
    /\ services = <<>>
    /\ volumes = EmptyMap
    /\ audit = <<>>
    /\ run = [w \in Workers |-> IdleRun]
    /\ runs = 0
    /\ hist = [snap |-> EmptyRows, ended |-> 0, stable |-> FALSE,
               mark |-> [w \in Workers |-> 0],
               pass |-> [w \in Workers |-> [c \in Clusters |-> NoPass]]]
    /\ alerts = <<>>
    /\ job = [w \in Workers |-> IdleJob]
    /\ jobs = 0
    /\ op = IdleOp
    /\ ops = 0
    /\ caller = [u \in Callers |-> IdleCaller]
    /\ shist = NoSettingsHistory
    /\ report = NoReport
    /\ remote = [c \in Clusters |-> "base"]
    /\ \E cpu1 \in {48, 64} : \E m1, m2 \in {<<>>, <<"r740">>} :
          hosts = CostHosts(cpu1, m1, m2)
    /\ \E h1 \in {0, 1, 2, 3} : \E f1 \in {"m1.small", "m1.large", "m1.tiny"} :
       \E h2 \in {0, 1, 3} : \E p2 \in {"proj1", "proj2"} : \E third \in BOOLEAN :
          instances =
             [i \in (IF third THEN {"i1", "i2", "i3"} ELSE {"i1", "i2"}) |->
                 IF i = "i1" THEN CostInstanceRow(i, h1, f1, "proj1")
                 ELSE IF i = "i2" THEN CostInstanceRow(i, h2, "m1.small", p2)
                 ELSE CostInstanceRow(i, 1, "m1.small", "proj2")]
    /\ flavors = CostFlavors
    /\ profiles = CostProfiles
    /\ portal \in CostSettings
    /\ concurrency = 1
    /\ bmc = [a \in BmcAddresses |-> "healthy"]
    /\ ome = "base"

NextCost ==
    \/ \E i \in DOMAIN instances : CostInstance(i)
    \/ CostProjects
    \/ \E c \in Clusters : CostCluster(c)

SpecCost == InitCost /\ [][NextCost]_vars

\* the host rows of cluster A in a synced inventory after sync_openmanage
\* has matched host 1 and an administrator has given it a cost profile;
\* cluster B has not been synced yet
FrameHosts ==
    <<[SyncedHosts[1] EXCEPT !.service_tag = "TAG1",
                             !.cpu_model = "R740",
                             !.hardware_health = "Critical",
                             !.server_model = <<"r740">>],
      SyncedHosts[2]>>

\* the row an earlier pass has stored for server i1 on host 1
FrameInstance ==
    NewInstanceRow(InstanceDefaults(Server("i1", "h1", "", TsAware), 1,
                                    LaunchedAt(TsAware).value))

\* a reconciliation run and one explicit refresh, of an instance or of a
\* host, on a stored inventory; the instance row may already hold the usage
\* of an earlier refresh
InitFrame ==
    /\ status = [c \in Clusters |-> "online"]
    /\ hosts = FrameHosts
    /\ services = <<>>
    /\ instances \in {[i1 |-> FrameInstance],
                      [i1 |-> WithStats(FrameInstance, <<Diagnostics>>)]}
    /\ volumes = EmptyMap
    /\ audit = <<>>
    /\ run = [w \in Workers |-> IdleRun]
    /\ runs = MaxRuns - 1
    /\ hist = [snap |-> EmptyRows, ended |-> 0, stable |-> FALSE,
               mark |-> [w \in Workers |-> 0],
               pass |-> [w \in Workers |-> [c \in Clusters |-> NoPass]]]
    /\ alerts = <<>>
    /\ job = [w \in Workers |-> IdleJob]
    /\ jobs = 0
    /\ flavors = EmptyMap
    /\ op = IdleOp
    /\ ops = MaxOps - 1
    /\ caller = [u \in Callers |-> IdleCaller]
    /\ shist = NoSettingsHistory
    /\ profiles = CostProfiles
    /\ report = NoReport
    /\ concurrency = 1
    /\ remote \in [Clusters -> RemoteStates("A") \cup RemoteStates("B")]
    /\ \A c \in Clusters : remote[c] \in RemoteStates(c)
    /\ bmc = [a \in BmcAddresses |-> "healthy"]
    /\ ome = "base"
    /\ portal = <<>>

NextFrame ==
    \/ \E w \in Active : StartRun(w)
    \/ \E w \in Active : BeginPass(w)
    \/ \E w \in Active : SyncService(w)
    \/ \E w \in Active : CreateService(w)
    \/ \E w \in Active : BuildMaps(w)
    \/ \E w \in Active : SyncHost(w)
    \/ \E w \in Active : CreateHost(w)
    \/ \E w \in Active : SyncInstance(w)
    \/ \E w \in Active : FinishPass(w)
    \/ \E w \in Active : FailPass(w)
    \/ \E w \in Active : EndRun(w)
    \/ DetailsRead
    \/ DetailsSave
    \/ RefreshRead
    \/ RefreshSave

SpecFrame == InitFrame /\ [][NextFrame]_vars

\* a stored inventory with an instance, its volume and a health alert on
\* host 1; the operator deletes hosts before and after a reconciliation run
InitDelete ==
    /\ status = [c \in Clusters |-> "online"]
    /\ hosts = FrameHosts
    /\ services = <<>>
    /\ instances \in {[i1 |-> FrameInstance],
                      [i1 |-> FrameInstance, i9 |-> [FrameInstance EXCEPT !.host = 0]]}
    /\ volumes = UpsertVolumes(EmptyMap, "i1", <<Vol("v1", <<Att("i1", "/dev/vda")>>)>>)
    /\ audit = <<>>
    /\ run = [w \in Workers |-> IdleRun]
    /\ runs = MaxRuns - 1
    /\ hist = [snap |-> EmptyRows, ended |-> 0, stable |-> FALSE,
               mark |-> [w \in Workers |-> 0],
               pass |-> [w \in Workers |-> [c \in Clusters |-> NoPass]]]
    /\ alerts = <<AlertRow(1, "System Health: Critical", "Redfish", "critical")>>
    /\ job = [w \in Workers |-> IdleJob]
    /\ jobs = 0
    /\ flavors = EmptyMap
    /\ op = IdleOp
    /\ ops = 0
    /\ caller = [u \in Callers |-> IdleCaller]
    /\ shist = NoSettingsHistory
    /\ profiles = CostProfiles
    /\ report = NoReport
    /\ concurrency = 1
    /\ remote \in [Clusters -> RemoteStates("A") \cup RemoteStates("B")]
    /\ \A c \in Clusters : remote[c] \in RemoteStates(c)
    /\ bmc = [a \in BmcAddresses |-> "healthy"]
    /\ ome = "base"
    /\ portal = <<>>

NextDelete ==
    \/ \E w \in Active : StartRun(w)
    \/ \E w \in Active : BeginPass(w)
    \/ \E w \in Active : SyncService(w)
    \/ \E w \in Active : CreateService(w)
    \/ \E w \in Active : BuildMaps(w)
    \/ \E w \in Active : SyncHost(w)
    \/ \E w \in Active : CreateHost(w)
    \/ \E w \in Active : SyncInstance(w)
    \/ \E w \in Active : FinishPass(w)
    \/ \E w \in Active : FailPass(w)
    \/ \E w \in Active : EndRun(w)
    \/ DeleteHost

SpecDelete == InitDelete /\ [][NextDelete]_vars

\* a stored inventory of two clusters: hosts, services, flavors, instances
\* with and without host, and volumes; the hardware jobs raise alerts and
\* the operator deletes clusters and hosts
InitPurge ==
    /\ status = [c \in Clusters |-> "online"]
    /\ hosts = SyncedHosts
    /\ services = <<ServiceRow("A", Svc("nova-compute", "h1", "enabled")),
                    ServiceRow("B", Svc("nova-compute", "h1", "enabled"))>>
    /\ \E h1 \in {1, 2} : \E third \in BOOLEAN :
          instances =
             [i \in (IF third THEN {"i1", "i2", "i3"} ELSE {"i1", "i2"}) |->
                 IF i = "i1" THEN CostInstanceRow(i, h1, "m1.small", "proj1")
                 ELSE IF i = "i2" THEN CostInstanceRow(i, 3, "m1.small", "proj2")
                 ELSE CostInstanceRow(i, 0, "m1.small", "proj2")]
    /\ volumes = UpsertVolumes(UpsertVolumes(EmptyMap, "i1", <<Vol("v1", <<Att("i1", "/dev/vda")>>)>>),
                               "i2", <<Vol("v2", <<Att("i2", "/dev/vdb")>>)>>)
    /\ audit = <<>>
    /\ run = [w \in Workers |-> IdleRun]
    /\ runs = 0
    /\ hist = [snap |-> EmptyRows, ended |-> 0, stable |-> FALSE,
               mark |-> [w \in Workers |-> 0],
               pass |-> [w \in Workers |-> [c \in Clusters |-> NoPass]]]
    /\ alerts = <<>>
    /\ job = [w \in Workers |-> IdleJob]
    /\ jobs = 0
    /\ flavors = CostFlavors
    /\ op = IdleOp
    /\ ops = 0
    /\ caller = [u \in Callers |-> IdleCaller]
    /\ shist = NoSettingsHistory
    /\ profiles = EmptyMap
    /\ report = NoReport
    /\ concurrency = 1
    /\ remote = [c \in Clusters |-> "base"]
    /\ bmc \in [BmcAddresses -> {"healthy", "warning", "critical_alt"}]
    /\ ome \in {"base", "alerts_raise"}
    /\ portal = <<ConfiguredSettings>>

NextPurge ==
    \/ NextHealth
    \/ DeleteCluster
    \/ DeleteHost

SpecPurge == InitPurge /\ [][NextPurge]_vars

(***************************************************************************)
(* Properties.                                                             *)
(***************************************************************************)
\* a run of worker w has processed every cluster
Finished(w) == run[w].pc = "done"

HostsOf(c) == {p \in DOMAIN hosts : hosts[p].cluster = c}

\* C1: with the remote state of every cluster unchanged since the previous
\* run started, a finished run leaves the PhysicalHost, ClusterService,
\* Instance and Volume rows exactly as the previous run left them.
C1_Idempotent ==
    \A w \in Workers :
        (Finished(w) /\ hist.ended >= 1 /\ hist.stable) => Rows = hist.snap

C1_Witness ==
    /\ Finished(1) /\ hist.ended >= 1 /\ hist.stable
    /\ Len(hosts) >= 2 /\ services # <<>>
    /\ DOMAIN instances # {} /\ DOMAIN volumes # {}

\* the names of the hypervisors a remote state reports
HypNames(r) == {r.hyps[i].name : i \in DOMAIN r.hyps}

\* the servers a pass meets: those listed under a reported hypervisor
MetServers(r) ==
    IF Fails(r, "servers") THEN {}
    ELSE {r.servers[n] : n \in {x \in DOMAIN r.servers :
                                  ServerHostName(r.servers[x]) \in HypNames(r)}}

\* a launch timestamp that is set and cannot be parsed
Unparsable(s) == s.form # "none" /\ (ParseDatetime(s).raised \/ ParseDatetime(s).isNone)

\* what in a cluster's own remote state makes its pass raise
RaisesInPass(r) ==
    \/ r.fault \in {"connect", "endpoint"}
    \/ Fails(r, "services")
    \/ Fails(r, "hypervisors")
    \/ \E srv \in MetServers(r) : Unparsable(srv.launched_at)

\* C2: at the end of a run, a cluster whose pass raised is offline and keeps
\* every host row the pass had written; whether a cluster's pass succeeded
\* depends on that cluster's remote state alone, and a cluster whose pass
\* did not raise is online, has its success entry and has one row per
\* reported hypervisor, whatever happened to the other cluster.
C2_FailureIsolated ==
    \A w \in Workers : Finished(w) =>
        \A c \in Clusters :
            LET ps == hist.pass[w][c] IN
            /\ ps.result = IF RaisesInPass(Remote(c)) THEN "failed" ELSE "ok"
            /\ \A name \in ps.written : HostMatches(hosts, c, name) # {}
            /\ ps.result = "failed" => status[c] = "offline"
            /\ ps.result = "ok" =>
                  /\ status[c] = "online"
                  /\ ps.written = HypNames(Remote(c))
                  /\ \A name \in HypNames(Remote(c)) :
                        Cardinality(HostMatches(hosts, c, name)) = 1
                  /\ audit # <<>>
                  /\ \E n \in DOMAIN audit :
                        /\ n > Len(audit) - Len(ClusterOrder)
                        /\ audit[n].target = c

C2_Witness ==
    /\ Finished(1)
    /\ hist.pass[1]["A"].result = "failed"
    /\ hist.pass[1]["A"].written # {}
    /\ hist.pass[1]["B"].result = "ok"
    /\ status["A"] = "offline" /\ status["B"] = "online"

\* the addresses a pass found: the values of its BMC map
FoundAddresses(w) == {run[w].maps.bmc[k] : k \in DOMAIN run[w].maps.bmc}

\* C3: no step empties a non-empty idrac_ip, and a step that changes it
\* sets it to a non-empty address of the BMC map of the pass that writes.
C3_IdracKept ==
    [][\A p \in DOMAIN hosts :
          hosts[p].idrac_ip # NoAddr =>
             /\ p \in DOMAIN hosts'
             /\ hosts'[p].idrac_ip # NoAddr
             /\ hosts'[p].idrac_ip # hosts[p].idrac_ip =>
                   \E w \in Workers : hosts'[p].idrac_ip \in FoundAddresses(w)]_vars

\* a host that has its address is upserted again by a pass whose BMC map
\* holds nothing for it
C3_Witness ==
    /\ run[1].pc = "hosts" /\ run[1].i = 2 /\ Cur(1) = "A"
    /\ hist.ended >= 1
    /\ run[1].maps.bmc = EmptyMap
    /\ \E p \in HostMatches(hosts, "A", run[1].hyps[1].name) :
          /\ p = run[1].host
          /\ hosts[p].idrac_ip # NoAddr

\* C4 as stated: after a completed pass the cluster has as many host rows
\* as the pass counted hypervisors.
C4_RowsEqualReported ==
    \A w \in Workers : \A c \in Clusters :
        (Finished(w) /\ hist.pass[w][c].result = "ok")
            => Cardinality(HostsOf(c)) = hist.pass[w][c].counted

\* C4 amended: after a completed pass the host names the pass upserted are
\* the distinct names the connector reported, each of them has exactly one
\* host row of the cluster, and the audit entry counts the reported
\* hypervisors; the cluster's other host rows, those of hypervisors no
\* longer reported, are kept, so the cluster has at least that many rows.
C4_EveryReportedHasRow ==
    \A w \in Workers : \A c \in Clusters :
        (Finished(w) /\ hist.pass[w][c].result = "ok") =>
            LET names == HypNames(Remote(c)) IN
            /\ hist.pass[w][c].written = names
            /\ \A name \in names : Cardinality(HostMatches(hosts, c, name)) = 1
            /\ hist.pass[w][c].counted = Len(Remote(c).hyps)
            /\ Cardinality(HostsOf(c)) >= Cardinality(names)
            /\ hist.ended = 0 => Cardinality(HostsOf(c)) = Cardinality(names)

\* a completed pass over a cluster that holds a row of a host no longer reported
C4_Witness ==
    /\ Finished(1) /\ hist.pass[1]["A"].result = "ok"
    /\ Cardinality(HostsOf("A")) > Cardinality(HypNames(Remote("A")))
    /\ HypNames(Remote("A")) # {}

\* C5 as stated: a server with an unparsable launch timestamp is stored
\* with launched_at absent and the pass goes on: the cluster is online and
\* every server the pass meets has its row.
C5_BadTimestampTolerated ==
    \A w \in Workers : \A c \in Clusters :
        (Finished(w) /\ Remote(c).fault = "none"
           /\ \E srv \in MetServers(Remote(c)) : Unparsable(srv.launched_at))
        => /\ status[c] = "online"
           /\ \A srv \in MetServers(Remote(c)) :
                 /\ srv.id \in DOMAIN instances
                 /\ Unparsable(srv.launched_at) => instances[srv.id].launched_at = NoTime

\* the maps of a pass have been built
MapsBuilt(w) == run[w].pc \in {"hosts", "host_create", "instances"}

NoFailure(r) ==
    [r EXCEPT !.nodesRaise = FALSE, !.nodesYielded = Len(r.nodes), !.statsFail = FALSE,
              !.serversFail = FALSE, !.volumesFail = FALSE, !.tries = NoTries]

\* C6 as stated: a map whose building raised is empty, the other maps are
\* what they are without the failure, and the pass goes on to its hosts.
C6_FailedMapEmpty ==
    \A w \in Workers : MapsBuilt(w) =>
        LET r == Remote(Cur(w))
            m == run[w].maps
        IN /\ m.bmc   = IF r.nodesRaise \/ Fails(r, "nodes")
                         THEN EmptyMap ELSE BuildBmcMap(NoFailure(r))
           /\ m.stats = IF Fails(r, "stats") THEN EmptyMap ELSE BuildStatsMap(NoFailure(r))
           /\ m.inst  = IF Fails(r, "servers") THEN EmptyMap ELSE BuildInstanceMap(NoFailure(r))
           /\ m.vol   = IF Fails(r, "volumes") THEN EmptyMap ELSE BuildVolumeMap(NoFailure(r))

\* C7 as stated: a collect_hardware_health run that has ended has returned
\* normally and has polled every host it selected, whatever the endpoints
\* of the hosts did at client creation, login, query or logout.
C7_PollSurvivesHostErrors ==
    \A w \in Workers :
        (job[w].kind = "poll" /\ job[w].pc \in {"returned", "raised"}) =>
            /\ job[w].pc = "returned"
            /\ job[w].polled = Range(job[w].items)

\* C8 as stated: at most one alert row per (target host, title), also when
\* hardware jobs overlap.
C8_OneAlertPerHostTitle ==
    \A a, b \in DOMAIN alerts :
        (alerts[a].target_host = alerts[b].target_host /\ alerts[a].title = alerts[b].title)
            => a = b

\* a step of a sync_openmanage run
OmeStep == \E w \in Workers : job[w].kind = "ome" /\ job'[w] # job[w]

\* no operator request has been made since the initial state
NoRequest == op.kind = "none" /\ ops = MaxOps - 1

\* C11 as stated: with sync_inventory and sync_openmanage interleaved and no
\* operator at work, no step of sync_openmanage changes a capacity field of
\* a host: the field keeps the value sync_inventory wrote.
C11_OmeKeepsCapacity ==
    [][(OmeStep /\ NoRequest)
          => \A p \in DOMAIN hosts : hosts'[p].cpu_count = hosts[p].cpu_count]_vars

\* a step of toggle_maintenance
ToggleStep == op.kind = "toggle" /\ op'.kind = "none"

\* C12 as stated: the is_maintenance flag of a host changes in a
\* toggle_maintenance step only.
C12_MaintenanceByToggleOnly ==
    [][(\E p \in DOMAIN hosts : hosts'[p].is_maintenance # hosts[p].is_maintenance)
          => ToggleStep]_vars

\* a get_settings() of caller u returns in this step
SettingsReturned(u) == caller[u].pc \in {"idle", "create"} /\ caller'[u].pc = "has"

\* C13: whatever the interleaving of the callers' get_settings() and save()
\* steps, the table never holds more than one row, every object handed out
\* has identity key 1, from the first returned get_settings() on the table
\* holds exactly one row, the row is the object of the latest save(), and a
\* get_settings() returns the row as it is stored at that moment.
C13_SettingsSingleton ==
    /\ [](/\ Len(portal) <= 1
          /\ \A u \in Callers : caller[u].obj # <<>> => caller[u].obj[1].pk = 1
          /\ shist.got => Len(portal) = 1 /\ Cardinality(SettingsRows(portal)) = 1
          /\ shist.saved # <<>> => portal = shist.saved)
    /\ [][\A u \in Callers : SettingsReturned(u) => caller'[u].obj = portal']_vars

\* the first-access race: one caller has created the row while the other,
\* whose lookup found none, is about to insert
C13_Witness ==
    /\ caller[1].pc = "has"
    /\ caller[2].pc = "create"
    /\ Len(portal) = 1

\* worker w is inside the pass of cluster c
InPass(w, c) ==
    /\ run[w].pc \in {"services", "svc_create", "hosts", "host_create", "instances", "fail"}
    /\ Cur(w) = c

\* C9 as stated: no two runs are inside the pass of the same cluster at the
\* same time.
C9_NoOverlappingPass ==
    \A c \in Clusters : \A w1, w2 \in Workers :
        (InPass(w1, c) /\ InPass(w2, c)) => w1 = w2

\* C10 as stated: at most one host row per (cluster, hostname) and at most
\* one service row per (cluster, binary, host).
C10_NaturalKeysUnique ==
    /\ \A p, q \in DOMAIN hosts :
          (hosts[p].cluster = hosts[q].cluster /\ hosts[p].hostname = hosts[q].hostname)
             => p = q
    /\ \A p, q \in DOMAIN services :
          (services[p].cluster = services[q].cluster
             /\ services[p].binary = services[q].binary
             /\ services[p].host = services[q].host) => p = q

\* the calls of a pass that go through openstack_retry
RetriedCalls == {"services", "hypervisors"}

\* the calls a pass makes after a given one
CallsAfter(call) ==
    IF call = "services" THEN Calls \ {"services", "flavors"}
    ELSE {"stats", "servers", "volumes"}

\* C14: a retry-wrapped call of a pass is attempted at most three times,
\* every attempt but the last one made ended in a transient connection
\* failure, and when the last one ended in any other failure the pass makes
\* no further call, fails, and leaves the cluster offline.
C14_BoundedRetry ==
    \A w \in Workers : run[w].pc # "idle" =>
        \A c \in Clusters : \A call \in RetriedCalls :
            LET ps   == hist.pass[w][c]
                n    == ps.tried[call]
                seq  == Answers(Remote(c), call)
            IN n >= 1 =>
                 /\ n <= 3
                 /\ \A k \in 1..(n - 1) : AnswerAt(seq, k) \in TransientErrors
                 /\ AnswerAt(seq, n) \notin (TransientErrors \cup {"ok"}) =>
                       /\ \A later \in CallsAfter(call) : ps.tried[later] = 0
                       /\ ps.result # "ok"
                       /\ Finished(w) => (ps.result = "failed" /\ status[c] = "offline")

\* a run in which get_services failed transiently once and then for good
C14_Witness ==
    /\ Finished(1)
    /\ remote["A"] = "services_flaky_fail"
    /\ hist.pass[1]["A"].tried["services"] = 2
    /\ status["A"] = "offline"
    /\ hist.pass[1]["B"].tried["hypervisors"] = 1

\* the remote fetches of a pass
PassCalls == {"services", "hypervisors", "nodes", "stats", "servers", "volumes"}

\* C15 as stated: a fetch of a pass that fails with a transient error is
\* retried: the pass gives a fetch up on a transient failure only when that
\* failure is the one of the third attempt.
C15_TransientRetried ==
    \A w \in Workers : run[w].pc # "idle" =>
        \A c \in Clusters : \A call \in PassCalls :
            LET n   == hist.pass[w][c].tried[call]
                seq == Answers(Remote(c), call)
            IN (n >= 1 /\ AnswerAt(seq, n) \in TransientErrors) => n = 3

\* the actions named by the entries of a log
AuditActions(log) == {log[n].action : n \in DOMAIN log}

SuccessSince(w, c) ==
    {n \in DOMAIN audit : /\ n > hist.mark[w]
                          /\ audit[n].action = "Inventory Sync Success"
                          /\ audit[n].target = c}

\* C17: at the end of a run every cluster has been given a pass; a cluster
\* whose pass reached its end got exactly one success entry in the run and
\* is online, a cluster whose pass ended in a handler at the cluster
\* boundary got none and is offline, and no cluster is left unknown.
C17_OneOutcomePerPass ==
    \A w \in Workers : Finished(w) =>
        \A c \in Clusters :
            LET ps == hist.pass[w][c] IN
            /\ ps.result \in {"ok", "failed"}
            /\ ps.result = "ok" =>
                  (Cardinality(SuccessSince(w, c)) = 1 /\ status[c] = "online")
            /\ ps.result = "failed" =>
                  (SuccessSince(w, c) = {} /\ status[c] = "offline")
            /\ status[c] # "unknown"

\* a second run ends: the pass of cluster A failed after the cluster had
\* been marked online, the pass of cluster B succeeded, and the log holds
\* entries of the earlier run as well
C17_Witness ==
    /\ Finished(1)
    /\ hist.mark[1] >= 1
    /\ hist.pass[1]["A"].result = "failed"
    /\ hist.pass[1]["A"].tried["services"] >= 1
    /\ hist.pass[1]["B"].result = "ok"
    /\ Cardinality(SuccessSince(1, "B")) = 1

\* the positions <<group, entry>> of the version-4 entries of an address list
V4Positions(groups) ==
    UNION {{<<g, e>> : e \in {x \in DOMAIN groups[g].addrs : groups[g].addrs[x].version = 4}}
              : g \in DOMAIN groups}

\* reported order: groups in order, entries of a group in order
ReportedBefore(p, q) == p[1] < q[1] \/ (p[1] = q[1] /\ p[2] <= q[2])

\* the first version-4 position of a non-empty set of positions
FirstPosition(ps) == CHOOSE p \in ps : \A q \in ps : ReportedBefore(p, q)

\* the row of server srv has the first version-4 address and its group name
HasFirstIPv4(row, srv) ==
    LET p == FirstPosition(V4Positions(srv.addresses)) IN
    /\ row.ip_address = srv.addresses[p[1]].addrs[p[2]].addr
    /\ row.network_name = srv.addresses[p[1]].name

\* C18 as stated: after a pass that succeeded, the row of every synced
\* server holds its first version-4 address and that group's name; for a
\* server without a version-4 entry the address is absent on a row the run
\* created and is the one the previous run left on a row that existed.
C18_FirstIPv4OrUnchanged ==
    \A w \in Workers : \A c \in Clusters :
        (Finished(w) /\ hist.pass[w][c].result = "ok") =>
            \A srv \in MetServers(Remote(c)) :
                /\ srv.id \in DOMAIN instances
                /\ IF V4Positions(srv.addresses) # {}
                   THEN HasFirstIPv4(instances[srv.id], srv)
                   ELSE IF srv.id \in DOMAIN hist.snap.instances
                        THEN instances[srv.id].ip_address
                                = hist.snap.instances[srv.id].ip_address
                        ELSE instances[srv.id].ip_address = NoAddr

\* the vcpus value of the bulk stats for a hypervisor, 0 when there is none
StatsValue(r, hyp) ==
    IF \E n \in DOMAIN r.stats : r.stats[n].hypervisor_hostname = hyp.name
    THEN Get(BuildStatsMap(r), hyp.name, [vcpus |-> 0]).vcpus
    ELSE 0

\* C19 as stated (for cpu_count): after a pass that succeeded the capacity
\* of each reported hypervisor's row is the bulk stats value when there is
\* one, else the value of the hypervisor summary when there is one, else the
\* value the row held before the run, else 0.
C19_CapacityPrecedence ==
    \A w \in Workers : \A c \in Clusters :
        (Finished(w) /\ hist.pass[w][c].result = "ok") =>
            \A n \in DOMAIN Remote(c).hyps :
                LET hyp == Remote(c).hyps[n] IN
                \A p \in HostMatches(hosts, c, hyp.name) :
                    hosts[p].cpu_count =
                        IF StatsValue(Remote(c), hyp) # 0 THEN StatsValue(Remote(c), hyp)
                        ELSE IF hyp.vcpus # 0 THEN hyp.vcpus
                        ELSE IF p \in DOMAIN hist.snap.hosts THEN hist.snap.hosts[p].cpu_count
                        ELSE 0

\* the ids of the servers a pass meets
MetIds(r) == {srv.id : srv \in MetServers(r)}

\* the attachments of a volume that name a server the pass meets
MetAttachments(r, vol) ==
    {n \in DOMAIN vol.attachments : vol.attachments[n].server_id \in MetIds(r)}

\* C20 as stated: after a pass that succeeded, a volume attached to servers
\* of the pass is stored with the instance of the first of these
\* attachments.
C20_FirstAttachmentWins ==
    \A w \in Workers : \A c \in Clusters :
        (Finished(w) /\ hist.pass[w][c].result = "ok" /\ ~Fails(Remote(c), "volumes")) =>
            \A n \in DOMAIN Remote(c).volumes :
                LET vol == Remote(c).volumes[n]
                    met == MetAttachments(Remote(c), vol)
                IN met # {} =>
                     /\ vol.id \in DOMAIN volumes
                     /\ volumes[vol.id].instance
                           = vol.attachments[CHOOSE a \in met : \A b \in met : a <= b].server_id

\* the remote of some cluster lists volume v with an attachment
ReportedAttached(v) ==
    \E c \in Clusters : \E n \in DOMAIN Remote(c).volumes :
        Remote(c).volumes[n].id = v /\ Remote(c).volumes[n].attachments # <<>>

\* C21: no step of a run removes a host, service, instance or volume row
\* (a host or service row keeps its natural key), and at the end of a run a
\* volume stored before it that no remote reports as attached any more has
\* the instance reference it had.
C21_NoDeletion ==
    /\ [][/\ DOMAIN hosts \subseteq DOMAIN hosts'
          /\ \A p \in DOMAIN hosts :
                hosts'[p].cluster = hosts[p].cluster /\ hosts'[p].hostname = hosts[p].hostname
          /\ DOMAIN services \subseteq DOMAIN services'
          /\ \A p \in DOMAIN services :
                /\ services'[p].cluster = services[p].cluster
                /\ services'[p].binary = services[p].binary
                /\ services'[p].host = services[p].host
          /\ DOMAIN instances \subseteq DOMAIN instances'
          /\ DOMAIN volumes \subseteq DOMAIN volumes']_vars
    /\ [](\A w \in Workers : (Finished(w) /\ hist.ended >= 1) =>
             \A v \in DOMAIN hist.snap.volumes :
                 ~ReportedAttached(v) =>
                     (v \in DOMAIN volumes
                        /\ volumes[v].instance = hist.snap.volumes[v].instance))

\* a second run has ended: cluster A reports no volume any more, and the
\* volume the first run stored is still there with its instance
C21_Witness ==
    /\ Finished(1)
    /\ hist.ended >= 1
    /\ remote["A"] = "no_volume"
    /\ hist.pass[1]["A"].result = "ok"
    /\ "v1" \in DOMAIN hist.snap.volumes
    /\ "v1" \in DOMAIN volumes
    /\ volumes["v1"].instance \in DOMAIN instances

\* the settings a call of the cost service works with
CostSettingsUsed == SettingsObject(GetSettings(portal))

\* C22: calculate_instance_cost returns None exactly when the instance has
\* no host or its host has no cost profile; otherwise it returns a whole,
\* non-negative number of cents, which is 0 when the host's cpu_count is 0.
C22_CostNoneOrAmount ==
    report.kind = "instance" =>
        LET inst == instances[report.instance] IN
        /\ report.cost = None <=>
              (inst.host = 0 \/ hosts[inst.host].server_model = <<>>)
        /\ report.cost # None =>
              /\ Len(report.cost) = 1
              /\ report.cost[1] \in Nat
              /\ hosts[inst.host].cpu_count = 0 => report.cost[1] = 0

\* the cost of an instance on a host that has a profile and no CPU
C22_Witness ==
    /\ report.kind = "instance"
    /\ instances[report.instance].host = 2
    /\ hosts[2].cpu_count = 0
    /\ hosts[2].server_model # <<>>
    /\ report.cost = <<0>>

\* the distance between two natural numbers
Dist(a, b) == IF a >= b THEN a - b ELSE b - a

\* the vcpus the claim gives an instance: those of the flavor of that name
\* in the host's cluster, 1 when there is none
ClaimedVcpus(inst, c) ==
    LET own == {f \in DOMAIN flavors :
                   flavors[f].name = inst.flavor_name /\ flavors[f].cluster = c}
    IN IF own = {} THEN 1 ELSE flavors[CHOOSE f \in own : TRUE].vcpus

\* C23: for a host with a profile and cpu_count > 0 the instance cost is
\* (amortization + watts/1000 * 24 * 30 * electricity_cost * pue)
\* / cpu_count * vcpus rounded to the cent, with the vcpus of the flavor of
\* the instance's flavor name in the host's own cluster, or 1; with 400 W,
\* 0.12, 1.5, 200.00, 64 CPUs and 2 vCPUs the power cost is 51.84, the host
\* total 251.84 and the instance cost 7.87.
C23_CostFormula ==
    /\ report.kind = "instance" =>
          LET inst == instances[report.instance] IN
          (inst.host # 0 /\ hosts[inst.host].server_model # <<>>
              /\ hosts[inst.host].cpu_count > 0) =>
             LET host == hosts[inst.host]
                 prof == profiles[host.server_model[1]]
                 st   == CostSettingsUsed
                 num  == (prof.monthly_amortization * 1250
                            + 9 * prof.average_watts * st.electricity_cost * st.pue)
                         * ClaimedVcpus(inst, host.cluster)
                 den  == 1250 * host.cpu_count
             IN /\ report.cost # None
                /\ 2 * Dist(report.cost[1] * den, num) <= den
    /\ PowerCost(Profile(400, 20000), DefaultSettings) = Double(5184)
    /\ HostTotalCost(Profile(400, 20000), DefaultSettings) = Double(25184)
    /\ (report.kind = "instance"
          /\ instances[report.instance].host = 1
          /\ hosts[1].cpu_count = 64
          /\ hosts[1].server_model = <<"r740">>
          /\ instances[report.instance].flavor_name = "m1.small"
          /\ CostSettingsUsed = DefaultSettings) => report.cost = <<787>>

\* the cost of an instance whose flavor name exists in the other cluster
\* only: it counts as one vCPU
C23_Witness ==
    /\ report.kind = "instance"
    /\ report.instance = "i1"
    /\ instances["i1"].host = 3
    /\ instances["i1"].flavor_name = "m1.large"
    /\ report.cost = <<972>>

\* the sum of the values of function val over the finite set S
RECURSIVE SumOver(_, _)
SumOver(S, val) ==
    IF S = {} THEN 0
    ELSE LET x == CHOOSE y \in S : TRUE IN val[x] + SumOver(S \ {x}, val)

\* the stored instances of a project
InstancesOfProject(pid) == {i \in DOMAIN instances : instances[i].project_id = pid}

\* the cost the report counts for each stored instance: 0 when it is absent
CountedCost ==
    [i \in DOMAIN instances |-> OrZero(InstanceCost(Db, instances[i], CostSettingsUsed))]

\* the report of calculate_project_costs has one entry per distinct
\* project_id of the stored instances, each entry counts the instances of
\* its project and sums their costs (an absent cost as 0), and the counts
\* sum to the number of instances
ProjectCostsGrouped ==
    report.kind = "projects" =>
        LET ps == report.projects IN
        /\ {ps[n].id : n \in DOMAIN ps} = {instances[i].project_id : i \in DOMAIN instances}
        /\ \A m, n \in DOMAIN ps : ps[m].id = ps[n].id => m = n
        /\ \A n \in DOMAIN ps :
              /\ ps[n].instance_count = Cardinality(InstancesOfProject(ps[n].id))
              /\ Cents(ps[n].total_cost) = SumOver(InstancesOfProject(ps[n].id), CountedCost)
        /\ SumOver(DOMAIN ps, [n \in DOMAIN ps |-> ps[n].instance_count]) = Cardinality(DOMAIN instances)

\* C24: calculate_project_costs returns one entry per distinct project_id
\* of the stored instances (an absent cost counts as 0), the entries'
\* instance_count values sum to the number of instances, and the float
\* projected_yearly equals the float product total_monthly * 12.
C24_YearlyIsTwelveTimesMonthly ==
    /\ ProjectCostsGrouped
    /\ report.kind = "projects" =>
          Double(report.projected_yearly) = DoubleTimes(Double(report.total_monthly), 12)

\* the cost of an instance before any rounding, 0 when it has none
UnroundedCost(inst) ==
    IF CannotCost(Db, inst) \/ hosts[inst.host].cpu_count = 0 THEN Frac(0, 1)
    ELSE ExactInstanceCost(Db, inst, CostSettingsUsed)

\* the sum of the unrounded costs of the instances in S
RECURSIVE UnroundedSum(_)
UnroundedSum(S) ==
    IF S = {} THEN Frac(0, 1)
    ELSE LET i == CHOOSE j \in S : TRUE
         IN FracAdd(UnroundedCost(instances[i]), UnroundedSum(S \ {i}))

\* the stored instances on a host of cluster c
StoredInCluster(c) ==
    {i \in DOMAIN instances : instances[i].host # 0 /\ hosts[instances[i].host].cluster = c}

\* C25: every aggregate of calculate_project_costs and
\* calculate_cluster_cost is the rounding to the cent of the sum of the
\* unrounded instance costs: total_monthly of the sum, projected_yearly of
\* twelve times the sum, avg_per_instance of the sum over the count.
C25_RoundedOnceAtTheEnd ==
    /\ report.kind = "projects" =>
          LET sum == UnroundedSum(DOMAIN instances) IN
          /\ report.total_monthly = Round2(sum)
          /\ report.projected_yearly = Round2(FracTimes(sum, 12))
    /\ report.kind = "cluster" =>
          LET S   == StoredInCluster(report.cluster)
              sum == UnroundedSum(S) IN
          /\ report.total_monthly = Round2(sum)
          /\ S # {} => report.avg_per_instance = Round2(FracOver(sum, Cardinality(S)))

\* C26: calculate_cluster_cost(c) counts exactly the stored instances whose
\* host belongs to c and sums their costs, an absent cost as 0; its
\* avg_per_instance is the cent nearest to total / instance_count, and 0
\* when c has no instances.
C26_ClusterCost ==
    report.kind = "cluster" =>
        LET S     == StoredInCluster(report.cluster)
            total == SumOver(S, CountedCost)
            n     == report.instance_count IN
        /\ n = Cardinality(S)
        /\ report.total_monthly = total
        /\ n = 0 => report.avg_per_instance = 0
        /\ n > 0 => 2 * Dist(report.avg_per_instance * n, total) <= n

\* a report for a cluster with two instances of its own, one of them on a
\* host without CPUs, next to an instance of the other cluster: the average
\* of 10.49 over two instances
C26_Witness ==
    /\ report.kind = "cluster"
    /\ report.cluster = "A"
    /\ report.instance_count = 2
    /\ report.total_monthly = 1049
    /\ report.avg_per_instance = 525
    /\ \E i \in DOMAIN instances :
          instances[i].host # 0 /\ hosts[instances[i].host].cluster = "B"

\* the keys a node record can be registered under
NodeKeys(node) == ({node.name, node.instance_id} \ {""}) \cup {node.id}

\* the node records the loop of a pass has handled: those the listing
\* yielded before it ended or raised
SeenNodes(r) ==
    IF Fails(r, "nodes") THEN <<>>
    ELSE SubSeq(r.nodes, 1, IF r.nodesYielded < Len(r.nodes) THEN r.nodesYielded ELSE Len(r.nodes))

HasAddress(node) == DriverAddress(node.driver_info) # NoAddr

SyncStep == \E w \in Workers : run'[w] # run[w]

\* C28: a step of a sync_inventory pass leaves last_cpu_usage_pct and
\* last_ram_usage_mb of every existing Instance and the cost profile
\* reference, service tag, model and hardware health of every existing
\* PhysicalHost as they are.
C28_SyncWritesOnlyItsFields ==
    [][SyncStep =>
          /\ \A i \in DOMAIN instances :
                /\ i \in DOMAIN instances'
                /\ instances'[i].last_cpu_usage_pct = instances[i].last_cpu_usage_pct
                /\ instances'[i].last_ram_usage_mb = instances[i].last_ram_usage_mb
          /\ \A p \in DOMAIN hosts :
                /\ p \in DOMAIN hosts'
                /\ hosts'[p].server_model = hosts[p].server_model
                /\ hosts'[p].service_tag = hosts[p].service_tag
                /\ hosts'[p].cpu_model = hosts[p].cpu_model
                /\ hosts'[p].hardware_health = hosts[p].hardware_health]_vars

\* a finished pass that has moved the stored instance to another host and
\* updated host 1, with the usage of a refresh and the hardware fields
\* still in place
C28_Witness ==
    /\ Finished(1)
    /\ hist.pass[1]["A"].result = "ok"
    /\ remote["A"] = "moved_server"
    /\ instances["i1"].host = 2
    /\ instances["i1"].last_cpu_usage_pct = 42
    /\ instances["i1"].last_ram_usage_mb = 512
    /\ "h1" \in hist.pass[1]["A"].written
    /\ hosts[1].service_tag = "TAG1"
    /\ hosts[1].hardware_health = "Critical"
    /\ hosts[1].server_model = <<"r740">>

\* a step of a hardware task
JobStep == job' # job

\* C29: no step of a hardware job changes or removes an existing alert row,
\* is_active included, so that an alert the operator deactivated stays
\* inactive; and a job of a worker that was idle when the operator
\* deactivated an alert, hence a later run, inserts no alert for the (host,
\* title) of that alert
C29_JobsLeaveIsActiveAlone ==
    [][JobStep =>
         /\ \A a \in DOMAIN alerts : a \in DOMAIN alerts' /\ alerts'[a] = alerts[a]
         /\ (op.kind = "deactivated" /\ Len(alerts') > Len(alerts)) =>
              LET w   == CHOOSE v \in Workers : job'[v] # job[v]
                  new == alerts'[Len(alerts')]
                  old == alerts[op.pk]
              IN \/ op.obj[w]
                 \/ new.target_host # old.target_host
                 \/ new.title # old.title]_vars

\* the operator deactivated a health alert while worker 1 was idle; a later
\* poll of worker 1 has read the same health from the host's BMC, and the
\* alert is still the only one of its (host, title) and still inactive
C29_Witness ==
    /\ op.kind = "deactivated" /\ ~op.obj[1]
    /\ ~alerts[op.pk].is_active
    /\ alerts[op.pk].source = "Redfish"
    /\ job[1].kind = "poll" /\ job[1].pc = "returned"
    /\ LET pk == alerts[op.pk].target_host
           e  == Endpoints[bmc[hosts[pk].idrac_ip]]
       IN /\ pk \in job[1].polled
          /\ PollOutcome(e) = "alert"
          /\ HealthTitle(e.health) = alerts[op.pk].title
          /\ AlertMatches(alerts, pk, alerts[op.pk].title) = {op.pk}

\* every instance's host reference is absent or names a stored host
HostReferencesResolve ==
    \A i \in DOMAIN instances :
        instances[i].host = 0 \/ HostExists(hosts, instances[i].host)

\* C30: a step that deletes a PhysicalHost row keeps every instance that ran
\* on it, with an absent host reference, and after every step each
\* instance's host reference is absent or names an existing host
C30_DeletedHostOrphansInstances ==
    [][/\ \A pk \in DOMAIN hosts :
            (HostExists(hosts, pk) /\ ~HostExists(hosts', pk)) =>
                \A i \in DOMAIN instances :
                    instances[i].host = pk =>
                        i \in DOMAIN instances' /\ instances'[i].host = 0
       /\ HostReferencesResolve']_vars

ClusterExists(c) == status[c] # "deleted"

\* no stored row refers to a deleted cluster, host or instance
NoDanglingReference ==
    /\ \A p \in DOMAIN hosts : HostExists(hosts, p) => ClusterExists(hosts[p].cluster)
    /\ HostReferencesResolve
    /\ \A v \in DOMAIN volumes : volumes[v].instance \in DOMAIN instances
    /\ \A n \in DOMAIN services : ClusterExists(services[n].cluster)
    /\ \A f \in DOMAIN flavors : ClusterExists(flavors[f].cluster)
    /\ \A a \in DOMAIN alerts : HostExists(hosts, alerts[a].target_host)

\* the step deletes cluster c
Deletes(c) == ClusterExists(c) /\ ~ClusterExists(c)'

\* the rows that do not hang on cluster c are after the step what they were
OthersUnchanged(c) ==
    LET kept == {p \in DOMAIN hosts : hosts[p].cluster # c}
    IN /\ \A p \in kept : hosts'[p] = hosts[p]
       /\ \A d \in Clusters \ {c} : status'[d] = status[d]
       /\ \A i \in DOMAIN instances :
             instances[i].host \in kept \cup {0} =>
                 i \in DOMAIN instances' /\ instances'[i] = instances[i]
       /\ \A v \in DOMAIN volumes :
             (volumes[v].instance \in DOMAIN instances
              /\ instances[volumes[v].instance].host \in kept \cup {0}) =>
                 v \in DOMAIN volumes' /\ volumes'[v] = volumes[v]
       /\ \A f \in DOMAIN flavors :
             flavors[f].cluster # c => f \in DOMAIN flavors' /\ flavors'[f] = flavors[f]
       /\ services' = SelectSeq(services, LAMBDA r : r.cluster # c)
       /\ alerts' = SelectSeq(alerts, LAMBDA a : a.target_host \in kept)

RefreshReturns == op.kind = "refresh" /\ op'.kind = "none"

\* the stored rows are after the step what they were
StoreUnchanged ==
    UNCHANGED <<status, hosts, services, instances, volumes, alerts, audit, flavors, portal>>

\* C32: refresh_host on a host whose cluster auth URL contains "fake"
\* returns False, creates no connector client and changes no stored row; on
\* any other host it returns True only if the hypervisor was found and the
\* host row and the instances of the host were written, and it returns
\* False when the hypervisor is not found or a step raises
C32_RefreshHost ==
    [][RefreshReturns =>
         LET host   == op.obj[1]
             r      == Remote(host.cluster)
             hyp    == HypervisorByName(r.hyps, host.hostname)
             raises == \/ r.fault \in {"connect", "endpoint"}
                       \/ Fails(r, "hypervisors")
                       \/ CallWithRetry(Answers(r, "servers")).error # "none"
             res    == op'.last[1]
         IN IF \E n \in DOMAIN op.url : op.url[n] = "fake"
            THEN ~res.value /\ ~res.client /\ StoreUnchanged
            ELSE /\ res.value =>
                      /\ hyp # <<>>
                      /\ hosts'[op.pk].cpu_count = hyp[1].vcpus
                      /\ hosts'[op.pk].state = hyp[1].state
                      /\ \A n \in DOMAIN r.servers :
                            r.servers[n].compute_host = host.hostname =>
                                /\ r.servers[n].id \in DOMAIN instances'
                                /\ instances'[r.servers[n].id].host = op.pk
                                /\ instances'[r.servers[n].id].name = r.servers[n].name
                 /\ (hyp = <<>> \/ raises) => ~res.value]_vars

\* refresh_host has returned False for a host of a cluster whose auth URL
\* has "fake" in it, without a client, and the store is the one the
\* request found
C32_Witness ==
    /\ op.kind = "none"
    /\ op.last = <<[value |-> FALSE, client |-> FALSE]>>
    /\ runs = MaxRuns - 1
    /\ hosts = FrameHosts
    /\ DOMAIN instances = {"i1"} /\ instances["i1"].host = 1

\* C33: a step of sync_inventory that upserts a server whose id has a row
\* leaves the number of Instance rows unchanged and overwrites the row's
\* name, flavor, project and host reference with the server's and the host
\* being synced; one that upserts a server with a new id adds exactly one
\* row; no other instance row changes
C33_InstanceKeyedById ==
    [][\A w \in Workers :
          (run[w].pc = "instances" /\ run'[w] # run[w] /\ run'[w].pc # "fail") =>
             LET srv == HostServers(run[w])[run[w].j]
                 row == instances'[srv.id]
             IN /\ srv.id \in DOMAIN instances'
                /\ row.name = srv.name /\ row.flavor_name = srv.flavor
                /\ row.project_id = srv.project_id /\ row.host = run[w].host
                /\ \A i \in DOMAIN instances \ {srv.id} :
                      i \in DOMAIN instances' /\ instances'[i] = instances[i]
                /\ IF srv.id \in DOMAIN instances
                   THEN DOMAIN instances' = DOMAIN instances
                   ELSE /\ DOMAIN instances' = DOMAIN instances \cup {srv.id}
                        /\ Cardinality(DOMAIN instances') = Cardinality(DOMAIN instances) + 1]_vars

\* server i1, stored on host 1 by the first run, has moved to host h2: the
\* second run has re-pointed its row, and the store holds as many instance
\* rows as after the first run
C33_Witness ==
    /\ Finished(1)
    /\ hist.ended = 1
    /\ remote["A"] = "moved_server"
    /\ "i1" \in DOMAIN hist.snap.instances /\ "i1" \in DOMAIN instances
    /\ hist.snap.instances["i1"].host = 1
    /\ instances["i1"].host = 2
    /\ DOMAIN instances = DOMAIN hist.snap.instances

\* the passes of the run of worker w that have ended, as positions of the
\* iteration order
PassesEnded(w) ==
    {n \in DOMAIN ClusterOrder : hist.pass[w][ClusterOrder[n]].result # "none"}

\* a run in flight has ended the passes of the clusters before the current
\* one and of no other; a run at its end has ended the pass of every cluster
InIterationOrder(w) ==
    /\ run[w].pc \notin {"idle", "done"} => PassesEnded(w) = 1 .. (run[w].ci - 1)
    /\ run[w].pc = "done" => PassesEnded(w) = DOMAIN ClusterOrder

\* a pass ends once: the step that records an outcome records it for the
\* current cluster, which had none
OnePass(w) ==
    \A c \in Clusters :
        hist'.pass[w][c].result # hist.pass[w][c].result =>
            \/ run[w].pc = "idle" /\ hist'.pass[w][c].result = "none"
            \/ c = Cur(w) /\ hist.pass[w][c].result = "none"

\* C34: every run of sync_inventory that has started reaches its return,
\* having given each cluster exactly one pass in iteration order, whichever
\* passes fail and at whichever step
C34_RunTerminates ==
    /\ \A w \in Workers : (run[w].pc # "idle") ~> (run[w].pc = "done")
    /\ [](\A w \in Workers : InIterationOrder(w))
    /\ [][\A w \in Workers : OnePass(w)]_vars

\* a run is at its return after the pass of cluster A failed and the pass
\* of cluster B succeeded
C34_Witness ==
    /\ Finished(1)
    /\ hist.pass[1]["A"].result = "failed"
    /\ hist.pass[1]["B"].result = "ok"
    /\ status["A"] = "offline" /\ status["B"] = "online"

\* the ids of the servers listed under hypervisor name, in list order
RECURSIVE IdsUnder(_, _)
IdsUnder(servers, name) ==
    IF servers = <<>> THEN <<>>
    ELSE (IF ServerHostName(Head(servers)) = name THEN <<Head(servers).id>> ELSE <<>>)
         \o IdsUnder(Tail(servers), name)

\* the servers of a pass in processing order: hypervisor list order, then
\* the order of the server list within each host
RECURSIVE ProcessingOrder(_, _)
ProcessingOrder(r, n) ==
    IF n > Len(r.hyps) THEN <<>>
    ELSE IdsUnder(r.servers, r.hyps[n].name) \o ProcessingOrder(r, n + 1)

\* the last position of the processing order that holds a server the
\* volume is attached to, 0 when there is none
LastAttached(order, vol) ==
    LET at == {n \in DOMAIN order :
                  \E k \in DOMAIN vol.attachments : vol.attachments[k].server_id = order[n]}
    IN IF at = {} THEN 0 ELSE CHOOSE n \in at : \A m \in at : m <= n

\* C35: when a pass ends in success, a volume attached to servers the pass
\* has synced is stored with the instance of the last of these servers in
\* processing order (hypervisor list order, then server order within a host)
C35_LastWriterWins ==
    [][\A w \in Workers :
          (run[w].pc = "hosts" /\ hist'.pass[w][Cur(w)].result = "ok"
             /\ hist.pass[w][Cur(w)].result = "none"
             /\ ~Fails(Remote(Cur(w)), "servers") /\ ~Fails(Remote(Cur(w)), "volumes")) =>
             LET r     == Remote(Cur(w))
                 order == ProcessingOrder(r, 1)
             IN \A n \in DOMAIN r.volumes :
                   LET last == LastAttached(order, r.volumes[n])
                   IN last # 0 =>
                        /\ r.volumes[n].id \in DOMAIN volumes'
                        /\ volumes'[r.volumes[n].id].instance = order[last]]_vars

\* volume v1 lists its attachment to i2 before the one to i1; the pass
\* synced i1 on h1 before i2 on h2, and v1 is stored with i2
C35_Witness ==
    /\ Finished(1)
    /\ hist.pass[1]["A"].result = "ok"
    /\ remote["A"] = "attachments_swapped"
    /\ "v1" \in DOMAIN volumes /\ volumes["v1"].instance = "i2"
    /\ {"i1", "i2"} \subseteq DOMAIN instances

\* the device of the first attachment entry of the volume that names
\* server sid, "" when there is none
RECURSIVE DeviceFor(_, _)
DeviceFor(atts, sid) ==
    IF atts = <<>> THEN ""
    ELSE IF Head(atts).server_id = sid THEN Head(atts).device
    ELSE DeviceFor(Tail(atts), sid)

\* C36: when a pass ends in success, the row of every volume the pass has
\* written holds the device of the first attachment entry that names the
\* instance the row references
C36_DeviceOfMatchingAttachment ==
    [][\A w \in Workers :
          (run[w].pc = "hosts" /\ hist'.pass[w][Cur(w)].result = "ok"
             /\ hist.pass[w][Cur(w)].result = "none"
             /\ ~Fails(Remote(Cur(w)), "servers") /\ ~Fails(Remote(Cur(w)), "volumes")) =>
             LET r == Remote(Cur(w))
             IN \A n \in DOMAIN r.volumes :
                   LET vol == r.volumes[n]
                   IN LastAttached(ProcessingOrder(r, 1), vol) # 0 =>
                        /\ vol.id \in DOMAIN volumes'
                        /\ volumes'[vol.id].device
                              = DeviceFor(vol.attachments, volumes'[vol.id].instance)]_vars

\* the device a sync_openmanage job is at
OmeAt(w) == job[w].items[job[w].n]

\* the stored hosts that hold the management address of the device
HoldAddress(device) ==
    IF device.NetworkAddress = NoAddr THEN {}
    ELSE {p \in DOMAIN hosts : hosts[p].idrac_ip = device.NetworkAddress}

\* the stored hosts whose name is the device's, whatever the case
HoldName(device) ==
    {p \in DOMAIN hosts : Lower(hosts[p].hostname) = Lower(device.DeviceName)}

\* the step of a job that looks up the host of a device
OmeLooksUp(w) ==
    /\ job[w].kind = "ome" /\ job[w].pc = "device" /\ job[w].n <= Len(job[w].items)
    /\ job'[w] # job[w]

\* the step of a job that saves the host of a device
OmeSaves(w) ==
    /\ job[w].kind = "ome" /\ job[w].pc = "device_save"
    /\ job'[w] # job[w]

HealthRunStep(w) ==
    /\ job[w].kind = "poll" \/ job'[w].kind = "poll"
    /\ job'[w] # job[w]

\* host pk has a BMC address and its BMC reports Warning or Critical
ReportsIssue(pk) ==
    /\ pk \in DOMAIN hosts
    /\ hosts[pk].idrac_ip # NoAddr
    /\ Endpoints[bmc[hosts[pk].idrac_ip]].health \in {"Warning", "Critical"}

\* C38: a step of a collect_hardware_health run changes no Cluster,
\* PhysicalHost, Instance, Volume or ClusterService row; the run polls only
\* hosts with a BMC address; an alert or an audit entry it appends is for a
\* host with a BMC address whose reported health is Warning or Critical
C38_HealthRunFrame ==
    [][\A w \in Workers :
          HealthRunStep(w) =>
             /\ UNCHANGED <<status, hosts, instances, volumes, services, flavors>>
             /\ \A pk \in job'[w].polled : hosts[pk].idrac_ip # NoAddr
             /\ alerts' # alerts =>
                   /\ Len(alerts') = Len(alerts) + 1
                   /\ SubSeq(alerts', 1, Len(alerts)) = alerts
                   /\ alerts'[Len(alerts')].target_host = job[w].pk
                   /\ ReportsIssue(job[w].pk)
             /\ audit' # audit =>
                   /\ Len(audit') = Len(audit) + 1
                   /\ SubSeq(audit', 1, Len(audit)) = audit
                   /\ ReportsIssue(job'[w].pk)
                   /\ audit'[Len(audit')].target = hosts[job'[w].pk].hostname]_vars

\* a run has returned after polling the two hosts with a BMC address, and
\* not the third: h1 has its alert and audit entry, h2 reported no issue
C38_Witness ==
    \E w \in Workers :
        /\ job[w].kind = "poll" /\ job[w].pc = "returned"
        /\ job[w].polled = {1, 2}
        /\ hosts[3].idrac_ip = NoAddr
        /\ ReportsIssue(1) /\ ~ReportsIssue(2)
        /\ \E a \in DOMAIN alerts : alerts[a].source = "Redfish" /\ alerts[a].target_host = 1
        /\ \A a \in DOMAIN alerts : alerts[a].source = "Redfish" => alerts[a].target_host = 1
        /\ \E n \in DOMAIN audit : audit[n].action = "Hardware Issue Detected"

\* the connector calls of a flavor sync succeed for cluster c
FlavorCallSucceeds(c) ==
    Remote(c).fault \notin {"connect", "endpoint"} /\ ~Fails(Remote(c), "flavors")

\* cluster c has a Flavor row for remote flavor f
HasFlavorRow(c, f) ==
    \E k \in DOMAIN flavors : k = f.id /\ flavors[k].cluster = c

\* every step of a flavor sync that handles a cluster appends one audit entry,
\* 'Flavor Sync Success' or 'Flavor Sync Failed', for that cluster, and goes
\* on to the next cluster
FlavorRunAuditsEachCluster ==
    [][\A w \in Workers :
          (job[w].kind = "flavors" /\ job[w].pc = "flavors" /\ job'[w] # job[w]
             /\ job[w].n <= Len(ClusterOrder)) =>
             /\ Len(audit') = Len(audit) + 1
             /\ audit'[Len(audit')].action \in {"Flavor Sync Success", "Flavor Sync Failed"}
             /\ audit'[Len(audit')].target = ClusterOrder[job[w].n]
             /\ job'[w].pc = "flavors" /\ job'[w].n = job[w].n + 1]_vars

\* C39: when a sync_flavors run has returned and the connector calls succeed
\* for every cluster, each cluster has a Flavor row for every flavor it
\* reports, also when two clusters report the same flavor id
C39_FlavorRowPerClusterAndFlavor ==
    \A w \in Workers :
        (job[w].kind = "flavors" /\ job[w].pc = "returned"
           /\ \A c \in Clusters : FlavorCallSucceeds(c)) =>
           \A c \in Clusters : \A n \in DOMAIN Remote(c).flavors :
               HasFlavorRow(c, Remote(c).flavors[n])

(***************************************************************************)
(* InventoryService.sync_hypervisor and sync_instance                      *)
(* (services/inventory_service.py 24-130) next to the inline host and      *)
(* instance steps of sync_inventory (tasks.py 126-203).                    *)
(***************************************************************************)
\* inventory_service.py 104-108: the launch timestamp of the service path;
\* is_naive is asked only of a value that was parsed, so a string
\* parse_datetime makes nothing of is stored as None
ServiceLaunchedAt(s) ==
    IF s.form = "none" THEN [raised |-> FALSE, value |-> NoTime]
    ELSE LET p == ParseDatetime(s) IN
         IF p.raised THEN [raised |-> TRUE, value |-> NoTime]
         ELSE IF p.isNone THEN [raised |-> FALSE, value |-> NoTime]
         ELSE [raised |-> FALSE,
               value |-> IF p.value.aware THEN p.value ELSE MakeAware(p.value)]

\* openstack_utils.py 60-65: what get_cluster_release() returns, never the
\* empty string
Releases == {"2023.2 (Bobcat)", "Unknown"}

\* models.py 151: the openstack_version column of a stored host, blank until
\* a write sets it
StoredReleases == {"", "2023.2 (Bobcat)"}

\* PhysicalHost.objects.update_or_create(cluster=, hostname=, defaults=) of
\* both paths on the columns they share: the table afterwards, the pk of the
\* row and whether the row was created
HostWrite(tbl, c, hyp, maps) ==
    LET m == HostMatches(tbl, c, hyp.name)
        v == HostValues(hyp, maps)
    IN IF Cardinality(m) > 1
       THEN [raised |-> TRUE, hosts |-> tbl, pk |-> 0, created |-> FALSE]
       ELSE IF m = {}
       THEN [raised |-> FALSE, hosts |-> Append(tbl, NewHostRow(c, hyp.name, v)),
             pk |-> Len(tbl) + 1, created |-> TRUE]
       ELSE LET pk == CHOOSE p \in m : TRUE
            IN [raised |-> FALSE, hosts |-> [tbl EXCEPT ![pk] = UpdateHostRow(@, v)],
                pk |-> pk, created |-> FALSE]

\* tasks.py 131-157: the inline host step; openstack_version is among its
\* defaults and takes the detected release
InlineHostStep(tbl, c, hyp, maps, stored, detected) ==
    LET u == HostWrite(tbl, c, hyp, maps)
    IN [raised |-> u.raised, hosts |-> u.hosts, pk |-> u.pk,
        openstack_version |-> IF u.raised THEN stored ELSE detected]

\* inventory_service.py 39-66: sync_hypervisor; openstack_version is not
\* among its defaults: a new row gets the blank of the model, a stored row
\* keeps what it has
SyncHypervisor(tbl, c, hyp, maps, stored) ==
    LET u == HostWrite(tbl, c, hyp, maps)
    IN [raised |-> u.raised, hosts |-> u.hosts, pk |-> u.pk,
        openstack_version |-> IF u.created THEN "" ELSE stored]

\* tasks.py 182-203: the inline instance step
InlineInstanceStep(tbl, srv, pk) ==
    LET la == LaunchedAt(srv.launched_at)
    IN [raised |-> la.raised,
        instances |-> IF la.raised THEN tbl ELSE UpsertInstance(tbl, srv, pk, la.value)]

\* inventory_service.py 102-125: the instance upsert of sync_instance
SyncInstanceRow(tbl, srv, pk) ==
    LET la == ServiceLaunchedAt(srv.launched_at)
    IN [raised |-> la.raised,
        instances |-> IF la.raised THEN tbl ELSE UpsertInstance(tbl, srv, pk, la.value)]

\* a call of InventoryService.sync_hypervisor for a hypervisor of cluster A
\* with the maps built from the cluster's answers; the record of the call
\* keeps what the service wrote (obj) and what the inline step writes from
\* the same store and inputs (last)
CallSyncHypervisor ==
    /\ ops < MaxOps
    /\ \E n \in DOMAIN Remote("A").hyps : \E stored \in StoredReleases :
       \E detected \in Releases :
         LET r    == Remote("A")
             hyp  == r.hyps[n]
             maps == [NoMaps EXCEPT !.bmc = BuildBmcMap(r), !.stats = BuildStatsMap(r)]
             s    == SyncHypervisor(hosts, "A", hyp, maps, stored)
             i    == InlineHostStep(hosts, "A", hyp, maps, stored, detected)
         IN /\ HostMatches(hosts, "A", hyp.name) = {} => stored = ""
            /\ hosts' = s.hosts
            /\ op' = [kind |-> "sync_hypervisor", pk |-> s.pk, obj |-> <<s>>, last |-> <<i>>]
    /\ ops' = ops + 1
    /\ UNCHANGED <<syncVars, audit, concurrency, bmc, ome, portal, alerts, job, jobs,
                   flavors, caller, shist, costVars>>

\* a call of InventoryService.sync_instance for a stored host and a server
\* the cluster reports, with the volume map built from the cluster's answers
CallSyncInstance ==
    /\ ops < MaxOps
    /\ ~Fails(Remote("A"), "servers")
    /\ \E pk \in DOMAIN hosts : \E n \in DOMAIN Remote("A").servers :
         LET r   == Remote("A")
             srv == r.servers[n]
             s   == SyncInstanceRow(instances, srv, pk)
             i   == InlineInstanceStep(instances, srv, pk)
         IN /\ instances' = s.instances
            /\ volumes' = IF s.raised THEN volumes
                          ELSE UpsertVolumes(volumes, srv.id, Get(BuildVolumeMap(r), srv.id, <<>>))
            /\ op' = [kind |-> "sync_instance", pk |-> pk, obj |-> <<s>>, last |-> <<i>>]
    /\ ops' = ops + 1
    /\ UNCHANGED <<remote, run, runs, hist, status, services, hosts, audit, concurrency,
                   bmc, ome, portal, alerts, job, jobs, flavors, caller, shist, costVars>>

\* the remote states the two paths are compared on
PathScenarios ==
    {"base", "one_hypervisor", "no_stats", "no_capacity", "two_nodes", "other_address",
     "moved_server", "text_timestamp", "bad_month", "no_ipv4"}

\* an empty or a synced store, and a cluster A in one of the remote states
InitPaths ==
    /\ status = [c \in Clusters |-> "online"]
    /\ hosts \in {<<>>, SyncedHosts}
    /\ services = <<>>
    /\ instances = EmptyMap
    /\ volumes = EmptyMap
    /\ audit = <<>>
    /\ run = [w \in Workers |-> IdleRun]
    /\ runs = 0
    /\ hist = [snap |-> EmptyRows, ended |-> 0, stable |-> FALSE,
               mark |-> [w \in Workers |-> 0],
               pass |-> [w \in Workers |-> [c \in Clusters |-> NoPass]]]
    /\ alerts = <<>>
    /\ job = [w \in Workers |-> IdleJob]
    /\ jobs = 0
    /\ flavors = EmptyMap
    /\ op = IdleOp
    /\ ops = 0
    /\ caller = [u \in Callers |-> IdleCaller]
    /\ shist = NoSettingsHistory
    /\ profiles = EmptyMap
    /\ report = NoReport
    /\ concurrency = 1
    /\ remote \in {[c \in Clusters |-> IF c = "A" THEN s ELSE "base"] : s \in PathScenarios}
    /\ bmc = [a \in BmcAddresses |-> "healthy"]
    /\ ome = "base"
    /\ portal = <<>>

NextPaths == CallSyncHypervisor \/ CallSyncInstance

SpecPaths == InitPaths /\ [][NextPaths]_vars

\* the two paths fail together, or neither does and they leave the same
\* PhysicalHost rows, the openstack_version column included
HostPathsAgree ==
    op.kind = "sync_hypervisor" =>
        \/ op.obj[1].raised /\ op.last[1].raised
        \/ /\ ~op.obj[1].raised /\ ~op.last[1].raised
           /\ op.obj[1].hosts = op.last[1].hosts
           /\ op.obj[1].openstack_version = op.last[1].openstack_version

\* the two paths fail together, or neither does and they leave the same
\* Instance rows
InstancePathsAgree ==
    op.kind = "sync_instance" =>
        \/ op.obj[1].raised /\ op.last[1].raised
        \/ /\ ~op.obj[1].raised /\ ~op.last[1].raised
           /\ op.obj[1].instances = op.last[1].instances

\* C40: for every host and server input, sync_hypervisor / sync_instance and
\* the inline host and instance steps of sync_inventory write the same
\* PhysicalHost and Instance rows, or both fail
C40_PathsWriteTheSameRows == HostPathsAgree /\ InstancePathsAgree

====
